---------------------------- MODULE Spec2Model ----------------------------
(***************************************************************************)
(* Model of mcp-config-watcher's tool-discovery engine                     *)
(* (src/src/core/mcp-tool-discovery.js, class MCPToolDiscovery).           *)
(*                                                                         *)
(* One engine instance serves up to MaxCalls discoverTools calls.  Every   *)
(* call owns the closure variables of its queryServerForTools session      *)
(* (childProcess, output, errorOutput, the two timers); the calls share    *)
(* only this.cachedTools and the emitter's listeners.  One action stands   *)
(* for one run of a handler on Node's event loop; the continuation of      *)
(* `await this.queryServerForTools(...)` is a microtask that runs right    *)
(* after the handler that settled the promise, before any other handler,   *)
(* so it is part of that handler's action.                                 *)
(*                                                                         *)
(* Spec follows one call through every handler of its session, the other   *)
(* calls of the engine being present as writes to the shared cache         *)
(* (otherCall).  CacheSpec runs MaxCalls overlapping calls against the     *)
(* cache, each with a child that writes to stdout and closes.              *)
(***************************************************************************)
EXTENDS Integers, Sequences, FiniteSets, TLC

\* Number of discoverTools calls made on the engine.
MaxCalls == 3

\* Number of 'data' events one stream of one subprocess delivers.
MaxChunks == 1

Calls == 1..MaxCalls

\* Server identifiers (cache keys).
Servers == {"s1", "s2"}

(***************************************************************************)
(* Text.  The output of a subprocess is modelled as a sequence of lexical  *)
(* tokens: a double-quoted string, a punctuation character, a bare word    *)
(* or a line break.  Blanks other than line breaks are not modelled.       *)
(***************************************************************************)
S(v) == [t |-> "s", v |-> v]
P(v) == [t |-> "p", v |-> v]
W(v) == [t |-> "w", v |-> v]
NL == [t |-> "nl", v |-> "\n"]

\* Bare words that are JSON literals.
Literals == {"0", "1", "true", "false", "null"}

\* Words of the shape [a-zA-Z]\w+_[a-zA-Z]\w* (pattern 4's toolRegex).
SnakeWords == {"get_time", "read_file", "tool_name"}

\* Op applied to the value of v: the value is computed once and Op reads it
\* as often as it likes (a const of the source).
With(v, Op(_)) == CHOOSE r \in {Op(x) : x \in {v}} : TRUE

\* The smallest element of a set of positions, 0 when there is none.
First(I) ==
  With(I, LAMBDA J : IF J = {} THEN 0 ELSE CHOOSE m \in J : \A n \in J : m <= n)

\* The text of a list of chunks (output += chunk).
RECURSIVE Concat(_)
Concat(chunks) ==
  IF chunks = <<>> THEN <<>> ELSE Head(chunks) \o Concat(Tail(chunks))

\* text.split('\n')
RECURSIVE Split(_)
Split(text) ==
  With(First({k \in 1..Len(text) : text[k] = NL}), LAMBDA n :
    IF n = 0 THEN <<text>>
    ELSE <<SubSeq(text, 1, n - 1)>> \o With(SubSeq(text, n + 1, Len(text)), Split))

\* [...new Set(tools)]: the first occurrence of each name, in order.
RECURSIVE Unique(_)
Unique(tools) ==
  IF tools = <<>> THEN <<>>
  ELSE With(tools[Len(tools)], LAMBDA x :
       With(With(SubSeq(tools, 1, Len(tools) - 1), Unique), LAMBDA r :
         IF \E k \in 1..Len(r) : r[k] = x THEN r ELSE Append(r, x)))

(***************************************************************************)
(* JSON.parse over tokens.  A value is [k, v]: k is "str" or "lit" with v  *)
(* its text, "arr" with v the elements, "obj" with v the <<key, value>>    *)
(* members in order, "undef" for a missing property.                       *)
(***************************************************************************)
Undefined == [k |-> "undef", v |-> ""]
ParseFail == [ok |-> FALSE, val |-> Undefined, next |-> 0]

RECURSIVE ParseValue(_, _), ParseMembers(_, _, _), ParseElements(_, _, _)
ParseValue(t, i) ==
  IF i > Len(t) THEN ParseFail
  ELSE IF t[i].t = "s"
         THEN [ok |-> TRUE, val |-> [k |-> "str", v |-> t[i].v], next |-> i + 1]
  ELSE IF t[i].t = "w"
         THEN IF t[i].v \in Literals
                THEN [ok |-> TRUE, val |-> [k |-> "lit", v |-> t[i].v], next |-> i + 1]
                ELSE ParseFail
  ELSE IF t[i] = P("{")
         THEN IF i + 1 <= Len(t) /\ t[i + 1] = P("}")
                THEN [ok |-> TRUE, val |-> [k |-> "obj", v |-> <<>>], next |-> i + 2]
                ELSE ParseMembers(t, i + 1, <<>>)
  ELSE IF t[i] = P("[")
         THEN IF i + 1 <= Len(t) /\ t[i + 1] = P("]")
                THEN [ok |-> TRUE, val |-> [k |-> "arr", v |-> <<>>], next |-> i + 2]
                ELSE ParseElements(t, i + 1, <<>>)
  ELSE ParseFail

ParseMembers(t, i, acc) ==
  IF i + 1 > Len(t) \/ t[i].t # "s" \/ t[i + 1] # P(":") THEN ParseFail
  ELSE With(ParseValue(t, i + 2), LAMBDA r :
       With(Append(acc, <<t[i].v, r.val>>), LAMBDA acc2 :
         IF ~r.ok \/ r.next > Len(t) THEN ParseFail
         ELSE IF t[r.next] = P("}")
                THEN [ok |-> TRUE, val |-> [k |-> "obj", v |-> acc2], next |-> r.next + 1]
         ELSE IF t[r.next] = P(",") THEN ParseMembers(t, r.next + 1, acc2)
         ELSE ParseFail))

ParseElements(t, i, acc) ==
  With(ParseValue(t, i), LAMBDA r :
  With(Append(acc, r.val), LAMBDA acc2 :
    IF ~r.ok \/ r.next > Len(t) THEN ParseFail
    ELSE IF t[r.next] = P("]")
           THEN [ok |-> TRUE, val |-> [k |-> "arr", v |-> acc2], next |-> r.next + 1]
    ELSE IF t[r.next] = P(",") THEN ParseElements(t, r.next + 1, acc2)
    ELSE ParseFail))

\* JSON.parse(text): line breaks are white space; the whole text is one value.
JSONparse(text) ==
  With(SelectSeq(text, LAMBDA x : x # NL), LAMBDA t :
  With(ParseValue(t, 1), LAMBDA r :
    IF r.ok /\ r.next = Len(t) + 1 THEN r ELSE ParseFail))

\* value[key]: the last member of that key; undefined on a non-object.
Prop(jv, key) ==
  IF jv.k # "obj" THEN Undefined
  ELSE With({m \in 1..Len(jv.v) : jv.v[m][1] = key}, LAMBDA n :
         IF n = {} THEN Undefined
         ELSE jv.v[CHOOSE m \in n : \A o \in n : o <= m][2])

\* JavaScript truthiness.
Truthy(jv) ==
  CASE jv.k = "undef" -> FALSE
    [] jv.k = "str" -> jv.v # ""
    [] jv.k = "lit" -> jv.v \notin {"0", "false", "null"}
    [] OTHER -> TRUE

\* What tools.push(x.name) adds to the list of names.
Pushed(jv) == IF jv.k \in {"str", "lit"} THEN jv.v ELSE "[object]"

\* for (const tool of arr) if (tool && tool.name) tools.push(tool.name)
RECURSIVE NamesOf(_)
NamesOf(elems) ==
  IF elems = <<>> THEN <<>>
  ELSE With(Prop(Head(elems), "name"), LAMBDA name :
         (IF Truthy(Head(elems)) /\ Truthy(name) THEN <<Pushed(name)>> ELSE <<>>)
         \o With(Tail(elems), NamesOf))


(***************************************************************************)
(* extractToolsFromOutput: the five patterns, each over the token text.    *)
(***************************************************************************)

\* "jsonrpc"\s*:\s*"2.0" at position j.
IsRpcKey(text, j) ==
  /\ j + 2 <= Len(text)
  /\ text[j] = S("jsonrpc") /\ text[j + 1] = P(":") /\ text[j + 2] = S("2.0")

\* output.match(/\{[\s\S]*?"jsonrpc"\s*:\s*"2.0"[\s\S]*?\}/g) from position i:
\* leftmost "{", lazily to the first "jsonrpc":"2.0" after it, lazily to the
\* first "}" after that; the next match starts behind it.
RECURSIVE RpcMatches(_, _)
RpcMatches(text, i) ==
  With(First({k \in i..Len(text) : text[k] = P("{")}), LAMBDA a :
  With(IF a = 0 THEN 0 ELSE First({k \in (a + 1)..Len(text) : IsRpcKey(text, k)}),
       LAMBDA j :
  With(IF j = 0 THEN 0 ELSE First({k \in (j + 3)..Len(text) : text[k] = P("}")}),
       LAMBDA e :
    IF e = 0 THEN <<>>
    ELSE <<SubSeq(text, a, e)>> \o RpcMatches(text, e + 1))))

\* output.match(/\{[\s\S]*?\}/g) from position i: each "{" up to the first "}".
RECURSIVE JsonMatches(_, _)
JsonMatches(text, i) ==
  With(First({k \in i..Len(text) : text[k] = P("{")}), LAMBDA a :
  With(IF a = 0 THEN 0 ELSE First({k \in (a + 1)..Len(text) : text[k] = P("}")}),
       LAMBDA e :
    IF e = 0 THEN <<>>
    ELSE <<SubSeq(text, a, e)>> \o JsonMatches(text, e + 1)))

\* Pattern 0 over the matches from the k-th on: the names of the first
\* response whose result.tools is an array with a named tool (returned as
\* pushed, without the final Set), <<>> when there is none.
RECURSIVE Pattern0(_, _)
Pattern0(rpcMatches, k) ==
  IF k > Len(rpcMatches) THEN <<>>
  ELSE With(JSONparse(rpcMatches[k]), LAMBDA r :
       With(Prop(r.val, "result"), LAMBDA result :
       With(Prop(result, "tools"), LAMBDA tools :
       With(IF r.ok /\ Truthy(result) /\ Truthy(tools) /\ tools.k = "arr"
              THEN NamesOf(tools.v) ELSE <<>>, LAMBDA names :
         IF names # <<>> THEN names ELSE Pattern0(rpcMatches, k + 1)))))

\* Pattern 1 over the matches from the k-th on, `tools` being the names pushed
\* so far: [ret |-> the function returned from inside the loop, tools].
RECURSIVE Pattern1(_, _, _)
Pattern1(jsonMatches, k, tools) ==
  IF k > Len(jsonMatches) THEN [ret |-> FALSE, tools |-> tools]
  ELSE With(JSONparse(jsonMatches[k]), LAMBDA r :
       With(Prop(r.val, "functions"), LAMBDA functions :
       With(Prop(r.val, "tools"), LAMBDA toolsArr :
       With(Prop(r.val, "name"), LAMBDA name :
       With(Truthy(functions) /\ functions.k = "arr", LAMBDA isFunctions :
       With(Truthy(toolsArr) /\ toolsArr.k = "arr", LAMBDA isTools :
       With(IF isFunctions THEN tools \o NamesOf(functions.v) ELSE tools, LAMBDA t1 :
       With(IF isTools THEN t1 \o NamesOf(toolsArr.v) ELSE t1, LAMBDA t2 :
       With(IF Truthy(name) /\ name.k = "str" THEN Append(t2, name.v) ELSE t2,
            LAMBDA t3 :
         IF ~r.ok THEN Pattern1(jsonMatches, k + 1, tools)
         ELSE IF isFunctions /\ t1 # <<>> THEN [ret |-> TRUE, tools |-> t1]
         ELSE IF isTools /\ t2 # <<>> THEN [ret |-> TRUE, tools |-> t2]
         ELSE Pattern1(jsonMatches, k + 1, t3))))))))))

\* A line scan that gives up on a line JSON.parse rejects.
NoNameMatch(line) == <<>>

\* /["']name["']\s*:\s*["']([^"']+)["']/i.exec(line): the first "name": "x".
NameMatch(line) ==
  With(First({k \in 1..(Len(line) - 2) :
                /\ line[k] = S("name") /\ line[k + 1] = P(":")
                /\ line[k + 2].t = "s" /\ line[k + 2].v # ""}), LAMBDA n :
    IF n = 0 THEN <<>> ELSE <<line[n + 2].v>>)

\* Pattern 2 on one line that includes "name": JSON.parse(line).name, and the
\* regular expression when parsing (or reading .name of null) throws.
LineNames(line) ==
  With(JSONparse(line), LAMBDA r :
  With(Prop(r.val, "name"), LAMBDA name :
    IF ~r.ok \/ (r.val.k = "lit" /\ r.val.v = "null") THEN NameMatch(line)
    ELSE IF Truthy(name) THEN <<Pushed(name)>>
    ELSE <<>>))

RECURSIVE Pattern2(_)
Pattern2(lines) ==
  IF lines = <<>> THEN <<>>
  ELSE With(Head(lines), LAMBDA line :
         (IF \E k \in 1..Len(line) : line[k] = S("name")
            THEN LineNames(line) ELSE <<>>)
         \o With(Tail(lines), Pattern2))

\* /["']?function["']?\s*:\s*["']?([a-zA-Z0-9_]+)["']?/gi from position i:
\* every function: value, pushed without a membership test.
IsKey(tok, word) == tok.t \in {"s", "w"} /\ tok.v = word
IsValue(tok) == tok.t \in {"s", "w"} /\ tok.v # ""
RECURSIVE FunctionDeclarations(_, _)
FunctionDeclarations(text, i) ==
  With(First({k \in i..(Len(text) - 2) :
                /\ IsKey(text[k], "function") /\ text[k + 1] = P(":")
                /\ IsValue(text[k + 2])}), LAMBDA n :
    IF n = 0 THEN <<>>
    ELSE <<text[n + 2].v>> \o FunctionDeclarations(text, n + 3))

\* /["']?name["']?\s*:\s*["']?([^"',\n]+)["']?/gi from position i: every
\* name: value whose value is not yet in tools.  The capture group takes any
\* character but a quote, a comma and a line break, so a value that is no
\* string or word is captured by its first character.
IsCaptured(tok) ==
  \/ IsValue(tok)
  \/ tok.t = "p" /\ tok.v \in {"{", "}", "[", "]", ":"}
RECURSIVE NameValues(_, _, _)
NameValues(text, i, tools) ==
  With(First({k \in i..(Len(text) - 2) :
                /\ IsKey(text[k], "name") /\ text[k + 1] = P(":")
                /\ IsCaptured(text[k + 2])}), LAMBDA n :
    IF n = 0 THEN tools
    ELSE With(text[n + 2].v, LAMBDA x :
         With(IF \E k \in 1..Len(tools) : tools[k] = x
                THEN tools ELSE Append(tools, x), LAMBDA pushed :
           NameValues(text, n + 3, pushed))))

Pattern3(text) ==
  With(FunctionDeclarations(text, 1), LAMBDA tools : NameValues(text, 1, tools))

\* /\b([a-zA-Z]\w+_[a-zA-Z]\w*)\b/g: every word with an underscore, once.
RECURSIVE Pattern4(_, _, _)
Pattern4(text, i, tools) ==
  IF i > Len(text) THEN tools
  ELSE With(IF /\ text[i].t \in {"s", "w"} /\ text[i].v \in SnakeWords
               /\ ~\E k \in 1..Len(tools) : tools[k] = text[i].v
              THEN Append(tools, text[i].v) ELSE tools, LAMBDA pushed :
         Pattern4(text, i + 1, pushed))

\* !output.trim()
IsBlank(text) == \A k \in 1..Len(text) : text[k] = NL

\* A chain that runs every strategy and merges what they find.
ChainMerged(text) ==
  Unique(Pattern0(RpcMatches(text, 1), 1) \o Pattern1(JsonMatches(text, 1), 1, <<>>).tools
         \o Pattern2(Split(text)) \o Pattern3(text) \o Pattern4(text, 1, <<>>))

\* The chain of lines 198-398: patterns 0 and 1 return from inside their
\* loops; a later pattern runs when tools is still empty; the final Set.
Chain(text) ==
  With(With(RpcMatches(text, 1), LAMBDA rpcMatches : Pattern0(rpcMatches, 1)),
       LAMBDA p0 :
    IF p0 # <<>> THEN p0
    ELSE With(With(JsonMatches(text, 1), LAMBDA jsonMatches :
                Pattern1(jsonMatches, 1, <<>>)), LAMBDA p1 :
      IF p1.ret THEN p1.tools
      ELSE With(IF p1.tools = <<>> THEN With(Split(text), Pattern2) ELSE p1.tools,
                LAMBDA t2 :
           With(IF t2 = <<>> THEN Pattern3(text) ELSE t2, LAMBDA t3 :
           With(IF t3 = <<>> THEN Pattern4(text, 1, <<>>) ELSE t3, Unique)))))

extractToolsFromOutput(output) ==
  With(output, LAMBDA text : IF IsBlank(text) THEN <<>> ELSE Chain(text))


VARIABLES
  cachedTools,    \* this.cachedTools: a Map, a function on the serverIds it has
  errorListener,  \* whether a listener for 'error' is registered on the engine
  phase,          \* per call: the discoverTools promise: "idle" (not called),
                  \*   "pending", "fulfilled", "rejected"
  serverId,       \* per call: the serverId argument
  returned,       \* per call: the value the promise fulfilled with
  childProcess,   \* per call: "none", "spawnError", "errored", "running", "closed"
  killed,         \* per call: childProcess.killed
  graceTimer,     \* per call: the 500 ms setTimeout is pending
  timeoutTimer,   \* per call: the discovery timeout is pending
  output,         \* per call: the chunks accumulated from stdout
  errorOutput,    \* per call: the chunks accumulated from stderr
  written,        \* per call: requests written to childProcess.stdin
  extractions,    \* per call: handler runs that extracted tools from the output
  kills,          \* per call: calls of childProcess.kill()
  diag,           \* per call: diagnostics emitted for the call
  spawnResult,    \* per call: how spawn() ended, "none" before it is called
  spawnEnv,       \* per call: the env option handed to spawn(), <<>> before
  spawnCount,     \* per serverId: processes spawned since the last clearCache()
  cleared,        \* clearCache() ran and no discoverTools call was made since
  done,           \* calls that returned after extraction, no clearCache() since
  before,         \* per call: the value of done when the call was made
  ambientEnv,     \* process.env
  configEnv,      \* per serverId: serverConfig.env, <<>> when it has none
  stage,          \* discoverToolsForServer: "idle", "discovery" (at the await of
                  \*   discoverTools), "prediction" (at the await of
                  \*   predictToolsForServer), "done", "threw" (the call
                  \*   rejected)
  parserConfig,   \* its arguments and configuration: serverId, autoApprove of
                  \*   the server, ai (an AI
                  \*   helper exists and config.ai.fallbackToAi), discovery
                  \*   (config.discovery.enabled is not false)
  parserTools,    \* its local array tools, and the array returned when done
  aiCalls,        \* calls of aiHelper.predictToolsForServer
  running,        \* MCPConfigWatcher: this.running
  watcher,        \* this.watcher: 0 for null, else the number of the handle
  lastHash,       \* this.lastHash: "null", "" or a hash
  watchCalls,     \* calls of chokidar.watch(); the n-th returns handle n
  closedWatchers, \* the handles whose close() has resolved
  watcherErrorListener, \* a listener for 'error' is registered on the watcher
  fileExists,     \* the settings file exists
  content,        \* the hash of its content
  ops,            \* the calls of the watcher's async methods, in the order
                  \*   they were made: each is the stack of its frames, the
                  \*   callee last, and a frame holds what it is waiting
                  \*   for, its locals, the events it emitted and what it
                  \*   returned
  aiConfig,       \* AIHelper: config.ai (enabled, cache.enabled, cache.maxAge)
  openai,         \* this.openai: "undefined" while the import is pending,
                  \*   "client" or "null"
  aiCache,        \* this.cache: key -> [value, timestamp]
  clock,          \* Date.now()
  aiErrorListener, \* a listener for 'error' is registered on the helper
  aiOps           \* the calls of getOrCompute and predictToolsForServer in
                  \*   the order they were made

session == <<childProcess, killed, graceTimer, timeoutTimer, output,
             errorOutput, written, extractions, kills>>

history == <<spawnResult, spawnEnv, spawnCount, cleared, done, before>>

\* The state of the discovery engine.
engine == <<cachedTools, errorListener, phase, serverId, returned, session, diag,
            history>>

environment == <<ambientEnv, configEnv>>

\* MCPSettingsParser.discoverToolsForServer
parserVars == <<stage, parserConfig, parserTools, aiCalls>>

\* MCPConfigWatcher and the settings file
watcherVars == <<running, watcher, lastHash, watchCalls, closedWatchers,
                 watcherErrorListener, fileExists, content, ops>>

\* What no operation of the engine changes.
\* AIHelper
aiVars == <<aiConfig, openai, aiCache, clock, aiErrorListener, aiOps>>

others == <<environment, parserVars, watcherVars, aiVars>>

vars == <<engine, others>>

\* An environment is a function from the names it sets to their values.
\* { ...a, ...b }: the names of both, b's value where both set one.
Spread(a, b) ==
  [n \in DOMAIN a \cup DOMAIN b |-> IF n \in DOMAIN b THEN b[n] ELSE a[n]]

\* The six assignments of lines 75-80.
DiscoveryEnv ==
  [MCP_LIST_FUNCTIONS |-> "true", MCP_DISCOVERY_MODE |-> "true",
   MCP_REQUIRE_DESCRIPTIONS |-> "true", MCP_LIST_TOOLS |-> "true",
   FUNCTIONS_DISCOVERY |-> "true", NODE_ENV |-> "discovery"]

\* An environment in which the caller's values are applied last.
processEnvCallerLast(ambient, env) == Spread(Spread(ambient, DiscoveryEnv), env)

\* processEnv of lines 71-80 for process.env = ambient and the env argument.
processEnv(ambient, env) == Spread(Spread(ambient, env), DiscoveryEnv)

\* The environments the service is started in.
AmbientEnvs ==
  {[PATH |-> "/usr/bin"],
   [PATH |-> "/usr/bin", NODE_ENV |-> "production"],
   [PATH |-> "/usr/bin", MCP_LIST_TOOLS |-> "false", API_KEY |-> "ambient"]}

\* The env members of the server configurations (serverConfig.env || {}).
ConfigEnvs ==
  {<<>>,
   [NODE_ENV |-> "test"],
   [PATH |-> "/opt/bin", API_KEY |-> "caller"],
   [NODE_ENV |-> "test", MCP_DISCOVERY_MODE |-> "false", API_KEY |-> "caller"]}

\* The engine after its constructor, lines 16-20, with no call made.
constructed ==
  /\ cachedTools = <<>>
  /\ errorListener = FALSE
  /\ phase = [c \in Calls |-> "idle"]
  /\ serverId = [c \in Calls |-> "s1"]
  /\ returned = [c \in Calls |-> <<>>]
  /\ childProcess = [c \in Calls |-> "none"]
  /\ killed = [c \in Calls |-> FALSE]
  /\ graceTimer = [c \in Calls |-> FALSE]
  /\ timeoutTimer = [c \in Calls |-> FALSE]
  /\ output = [c \in Calls |-> <<>>]
  /\ errorOutput = [c \in Calls |-> <<>>]
  /\ written = [c \in Calls |-> 0]
  /\ extractions = [c \in Calls |-> 0]
  /\ kills = [c \in Calls |-> 0]
  /\ diag = [c \in Calls |-> {}]
  /\ spawnResult = [c \in Calls |-> "none"]
  /\ spawnCount = [s \in Servers |-> 0]
  /\ cleared = FALSE
  /\ done = {}
  /\ before = [c \in Calls |-> {}]
  /\ spawnEnv = [c \in Calls |-> <<>>]

\* No call of discoverToolsForServer has been made.
parserIdle ==
  /\ stage = "idle"
  /\ parserConfig = [serverId |-> "s1", autoApprove |-> <<>>, ai |-> FALSE,
                     discovery |-> TRUE]
  /\ parserTools = <<>>
  /\ aiCalls = 0

\* The watcher after its constructor, lines 15-21, and the settings file.
watcherConstructed ==
  /\ running = FALSE
  /\ watcher = 0
  /\ lastHash = "null"
  /\ watchCalls = 0
  /\ closedWatchers = {}
  /\ watcherErrorListener = FALSE
  /\ fileExists = TRUE
  /\ content = "h1"
  /\ ops = <<>>

\* The helper after its constructor, lines 12-38, with this configuration:
\* the import of the client is pending when AI is enabled.
aiConstructed(config) ==
  /\ aiConfig = config
  /\ openai = IF config.enabled THEN "undefined" ELSE "null"
  /\ aiCache = <<>>
  /\ clock = 0
  /\ aiErrorListener = FALSE
  /\ aiOps = <<>>

Init ==
  /\ constructed
  /\ parserIdle
  /\ watcherConstructed
  /\ aiConstructed([enabled |-> TRUE, cache |-> TRUE, maxAge |-> 2])
  /\ ambientEnv = [PATH |-> "/usr/bin", NODE_ENV |-> "production"]
  /\ configEnv = [s \in Servers |-> IF s = "s1" THEN [NODE_ENV |-> "test"] ELSE <<>>]

(***************************************************************************)
(* What a subprocess can do.                                               *)
(***************************************************************************)

\* The chunks a 'data' event can deliver: a line that names a tool, and a
\* line that names none.
NameLine == <<S("name"), P(":"), S("ping"), NL>>
NoiseLine == <<W("ready"), NL>>
Chunks == {NameLine, NoiseLine}

\* The code of a 'close' event: 0, another number, or null (ended by a signal).
ExitCodes == {"zero", "nonzero", "null"}

\* How spawn(command, args, {shell: true}) ends.  "ok": the shell runs the
\* command.  "notFound": the shell runs and cannot execute the command; it
\* writes its message to stderr and exits with 127.  "error": the shell itself
\* could not be executed and the child emits 'error' on the next tick.
\* "throw": spawn() throws.
SpawnResults == {"ok", "notFound", "error", "throw"}
Started == {"ok", "notFound"}

Has(text, tok) == \E k \in 1..Len(text) : text[k] = tok

(***************************************************************************)
(* discoverTools after the await: lines 49-53, and the catch of 54-57.     *)
(***************************************************************************)

\* this.cachedTools.set(serverId, tools)
CacheSet(s, tools) ==
  [x \in DOMAIN cachedTools \cup {s} |-> IF x = s THEN tools ELSE cachedTools[x]]

\* The try block after `await this.queryServerForTools(...)` fulfilled with
\* tools; d are the diagnostics the running handler emitted before.
Continue(c, tools, d) ==
  /\ cachedTools' = CacheSet(serverId[c], tools)
  /\ phase' = [phase EXCEPT ![c] = "fulfilled"]
  /\ returned' = [returned EXCEPT ![c] = tools]
  /\ diag' = [diag EXCEPT ![c] = @ \cup d \cup {"debug.discovered"}]
  /\ done' = done \cup {c}

\* A catch block that also stores the empty result it returns.
CatchAndCache(c, d) ==
  /\ cachedTools' = CacheSet(serverId[c], <<>>)
  /\ phase' = [phase EXCEPT ![c] = IF errorListener THEN "fulfilled" ELSE "rejected"]
  /\ returned' = [returned EXCEPT ![c] = <<>>]
  /\ diag' = [diag EXCEPT ![c] = @ \cup d \cup {"error.failed", "debug.discovered"}]
  /\ UNCHANGED done

\* The catch block: this.emit('error', ...) and return [].  An EventEmitter
\* with no 'error' listener throws on emit('error'): the exception leaves the
\* catch block and the promise of discoverTools rejects.
Catch(c, d) ==
  /\ phase' = [phase EXCEPT ![c] = IF errorListener THEN "fulfilled" ELSE "rejected"]
  /\ returned' = [returned EXCEPT ![c] = <<>>]
  /\ diag' = [diag EXCEPT ![c] = @ \cup d \cup {"error.failed"}]
  /\ UNCHANGED <<cachedTools, done>>

\* resolve(tools) in a handler of call c: the first settlement of the promise
\* runs the continuation, a later one does nothing.
Resolve(c, tools, d) ==
  IF phase[c] = "pending" THEN Continue(c, tools, d)
  ELSE /\ diag' = [diag EXCEPT ![c] = @ \cup d]
       /\ UNCHANGED <<cachedTools, phase, returned, done>>

\* reject(error) in a handler of call c.
Reject(c, d) ==
  IF phase[c] = "pending" THEN Catch(c, d)
  ELSE /\ diag' = [diag EXCEPT ![c] = @ \cup d]
       /\ UNCHANGED <<cachedTools, phase, returned, done>>

\* The diagnostics of one run of extractToolsFromOutput that matter here.
ExtractDiag(text) == IF IsBlank(text) THEN {"warning.emptyOutput"} ELSE {}

(***************************************************************************)
(* Operations of the engine.                                               *)
(***************************************************************************)

\* discoverTools(serverId, serverConfig) up to its await: lines 28-47 with
\* queryServerForTools' executor, lines 69-121 and 178-180.  Calls are numbered
\* in the order they are made.
discoverTools(c, s, command, spawned) ==
  /\ phase[c] = "idle"
  /\ \A b \in Calls : b < c => phase[b] # "idle"
  /\ serverId' = [serverId EXCEPT ![c] = s]
  /\ cleared' = FALSE
  /\ before' = [before EXCEPT ![c] = done]
  /\ IF s \in DOMAIN cachedTools
       THEN /\ phase' = [phase EXCEPT ![c] = "fulfilled"]
            /\ returned' = [returned EXCEPT ![c] = cachedTools[s]]
            /\ diag' = [diag EXCEPT ![c] = @ \cup {"debug.cached"}]
            /\ UNCHANGED <<cachedTools, session, spawnResult, spawnEnv, spawnCount, done>>
     ELSE IF ~command
       THEN /\ Catch(c, {"info.discovering"})
            /\ UNCHANGED <<session, spawnResult, spawnEnv, spawnCount>>
     ELSE IF spawned = "throw"
       THEN /\ Catch(c, {"info.discovering", "debug.running"})
            /\ spawnResult' = [spawnResult EXCEPT ![c] = spawned]
            /\ spawnEnv' = [spawnEnv EXCEPT ![c] = processEnv(ambientEnv, configEnv[s])]
            /\ UNCHANGED <<session, spawnCount>>
     ELSE /\ childProcess' = [childProcess EXCEPT ![c] =
                                IF spawned \in Started THEN "running" ELSE "spawnError"]
          /\ spawnResult' = [spawnResult EXCEPT ![c] = spawned]
          /\ spawnEnv' = [spawnEnv EXCEPT ![c] = processEnv(ambientEnv, configEnv[s])]
          /\ spawnCount' = [spawnCount EXCEPT ![s] =
                              IF spawned \in Started THEN @ + 1 ELSE @]
          /\ graceTimer' = [graceTimer EXCEPT ![c] = TRUE]
          /\ timeoutTimer' = [timeoutTimer EXCEPT ![c] = TRUE]
          /\ phase' = [phase EXCEPT ![c] = "pending"]
          /\ diag' = [diag EXCEPT ![c] = @ \cup {"info.discovering", "debug.running"}]
          /\ UNCHANGED <<cachedTools, returned, killed, output, errorOutput,
                         written, extractions, kills, done>>
  /\ UNCHANGED errorListener

\* clearCache(): lines 403-406.
clearCache ==
  /\ cachedTools' = <<>>
  /\ spawnCount' = [s \in Servers |-> 0]
  /\ cleared' = TRUE
  /\ done' = {}
  /\ UNCHANGED <<errorListener, phase, serverId, returned, session, diag,
                 spawnResult, spawnEnv, before>>

\* on('error', listener), inherited from EventEmitter.
onError ==
  /\ ~errorListener
  /\ errorListener' = TRUE
  /\ UNCHANGED <<cachedTools, phase, serverId, returned, session, diag, history>>

(***************************************************************************)
(* Handlers of one session.                                                *)
(***************************************************************************)

\* childProcess.stdin.write(jsonRpcRequest), line 116: the request is handed to
\* the stream, or the call throws into the catch of line 118.
WriteResults == {"ok", "throws"}

\* A request timer whose failed write fails the call.
graceAbort(c) ==
  /\ graceTimer[c]
  /\ childProcess[c] # "spawnError"
  /\ graceTimer' = [graceTimer EXCEPT ![c] = FALSE]
  /\ IF childProcess[c] = "running"
       THEN \E write \in WriteResults :
              /\ written' = [written EXCEPT ![c] = IF write = "ok" THEN @ + 1 ELSE @]
              /\ IF write = "ok"
                   THEN /\ diag' = [diag EXCEPT ![c] = @ \cup {"debug.request"}]
                        /\ UNCHANGED <<cachedTools, phase, returned, done>>
                   ELSE Reject(c, {"debug.request", "debug.writeFailed"})
       ELSE UNCHANGED <<written, diag, cachedTools, phase, returned, done>>
  /\ UNCHANGED <<errorListener, serverId, childProcess, killed, timeoutTimer,
                 output, errorOutput, extractions, kills, spawnResult, spawnEnv, spawnCount,
                 cleared, before>>

\* The setTimeout of 500 ms, lines 111-121: the request is written when stdin
\* is writable; a child that could not be spawned or has closed has none.  A
\* write that throws is caught and reported on the debug level.
graceHandler(c) ==
  /\ graceTimer[c]
  /\ childProcess[c] # "spawnError"
  /\ graceTimer' = [graceTimer EXCEPT ![c] = FALSE]
  /\ IF childProcess[c] = "running"
       THEN \E write \in WriteResults :
              /\ written' = [written EXCEPT ![c] = IF write = "ok" THEN @ + 1 ELSE @]
              /\ diag' = [diag EXCEPT ![c] = @ \cup {"debug.request"} \cup
                     (IF write = "throws" THEN {"debug.writeFailed"} ELSE {})]
       ELSE UNCHANGED <<written, diag>>
  /\ UNCHANGED <<cachedTools, errorListener, phase, serverId, returned,
                 childProcess, killed, timeoutTimer, output, errorOutput,
                 extractions, kills, history>>

\* childProcess.stdout.on('data'), lines 124-137.
stdoutData(c, chunk) ==
  /\ childProcess[c] = "running"
  /\ spawnResult[c] = "ok"
  /\ Len(output[c]) < MaxChunks
  /\ output' = [output EXCEPT ![c] = Append(@, chunk)]
  /\ diag' = [diag EXCEPT ![c] = @ \cup
       (IF Has(chunk, S("jsonrpc")) /\ (Has(chunk, S("result")) \/ Has(chunk, S("error")))
          THEN {"debug.rpcChunk"} ELSE {})]
  /\ UNCHANGED <<cachedTools, errorListener, phase, serverId, returned,
                 childProcess, killed, graceTimer, timeoutTimer, errorOutput,
                 written, extractions, kills, history>>

\* childProcess.stderr.on('data'), lines 140-142.
stderrData(c, chunk) ==
  /\ childProcess[c] = "running"
  /\ spawnResult[c] = "notFound" => chunk = NoiseLine
  /\ Len(errorOutput[c]) < MaxChunks
  /\ errorOutput' = [errorOutput EXCEPT ![c] = Append(@, chunk)]
  /\ UNCHANGED <<cachedTools, errorListener, phase, serverId, returned,
                 childProcess, killed, graceTimer, timeoutTimer, output,
                 written, extractions, kills, diag, history>>

\* childProcess.on('close'), lines 145-171.  A child that could not be spawned
\* closes with a negative code after its 'error' event; a shell that could not
\* execute the command exits with 127 unless a signal ends it first.
closeHandler(c, code) ==
  /\ childProcess[c] \in {"running", "errored"}
  /\ childProcess[c] = "errored" => code = "nonzero"
  /\ spawnResult[c] = "notFound" => code = (IF killed[c] THEN "null" ELSE "nonzero")
  /\ childProcess' = [childProcess EXCEPT ![c] = "closed"]
  /\ extractions' = [extractions EXCEPT ![c] = @ + 1]
  /\ LET out == Concat(output[c])
         err == Concat(errorOutput[c])
         tools == extractToolsFromOutput(out)
         useErr == tools = <<>> /\ err # <<>>
         errorTools == extractToolsFromOutput(err)
         d == (CASE code = "nonzero" ->
                      {"warning.exit"} \cup (IF err # <<>> THEN {"debug.errorOutput"} ELSE {})
                 [] code = "null" -> {"debug.terminated"}
                 [] OTHER -> {})
              \cup ExtractDiag(out)
              \cup (IF useErr THEN ExtractDiag(err) ELSE {})
     IN IF useErr /\ errorTools # <<>>
          THEN Resolve(c, errorTools, d \cup {"debug.stderrTools"})
          ELSE Resolve(c, tools, d)
  /\ UNCHANGED <<errorListener, serverId, killed, graceTimer, timeoutTimer,
                 output, errorOutput, written, kills, spawnResult, spawnEnv, spawnCount, cleared, before>>

\* childProcess.on('error'), lines 174-176: emitted on the tick after spawn(),
\* before any timer.
errorHandler(c) ==
  /\ childProcess[c] = "spawnError"
  /\ childProcess' = [childProcess EXCEPT ![c] = "errored"]
  /\ Reject(c, {})
  /\ UNCHANGED <<errorListener, serverId, killed, graceTimer, timeoutTimer,
                 output, errorOutput, written, extractions, kills,
                 spawnResult, spawnEnv, spawnCount, cleared, before>>

\* A timeout that kills the child and leaves the resolution to 'close'.
timeoutKillOnly(c) ==
  /\ timeoutTimer[c]
  /\ childProcess[c] # "spawnError"
  /\ timeoutTimer' = [timeoutTimer EXCEPT ![c] = FALSE]
  /\ kills' = [kills EXCEPT ![c] = @ + 1]
  /\ killed' = [killed EXCEPT ![c] = childProcess[c] = "running"]
  /\ UNCHANGED <<cachedTools, errorListener, phase, serverId, returned,
                 childProcess, graceTimer, output, errorOutput, written,
                 extractions, diag, history>>

\* A timeout that resolves with the partial output and leaves the child alone.
timeoutResolveOnly(c) ==
  /\ timeoutTimer[c]
  /\ childProcess[c] # "spawnError"
  /\ timeoutTimer' = [timeoutTimer EXCEPT ![c] = FALSE]
  /\ extractions' = [extractions EXCEPT ![c] = @ + 1]
  /\ Resolve(c, extractToolsFromOutput(Concat(output[c])),
             {"info.terminated"} \cup ExtractDiag(Concat(output[c])))
  /\ UNCHANGED <<errorListener, serverId, childProcess, killed, graceTimer,
                 output, errorOutput, written, kills, spawnResult, spawnEnv, spawnCount,
                 cleared, before>>

\* A timeout that kills the child and fails the call with an error.
timeoutReject(c) ==
  /\ timeoutTimer[c]
  /\ childProcess[c] # "spawnError"
  /\ timeoutTimer' = [timeoutTimer EXCEPT ![c] = FALSE]
  /\ IF ~killed[c]
       THEN /\ kills' = [kills EXCEPT ![c] = @ + 1]
            /\ killed' = [killed EXCEPT ![c] = childProcess[c] = "running"]
            /\ Reject(c, {})
       ELSE UNCHANGED <<kills, killed, cachedTools, phase, returned, diag, done>>
  /\ UNCHANGED <<errorListener, serverId, childProcess, graceTimer, output,
                 errorOutput, written, extractions, spawnResult, spawnEnv, spawnCount,
                 cleared, before>>

\* The discovery timeout, lines 179-188.  kill() signals a child that still
\* runs and then sets childProcess.killed; on a child that is gone it does
\* nothing and killed stays false.
timeoutHandler(c) ==
  /\ timeoutTimer[c]
  /\ childProcess[c] # "spawnError"
  /\ timeoutTimer' = [timeoutTimer EXCEPT ![c] = FALSE]
  /\ IF ~killed[c]
       THEN /\ kills' = [kills EXCEPT ![c] = @ + 1]
            /\ killed' = [killed EXCEPT ![c] = childProcess[c] = "running"]
            /\ extractions' = [extractions EXCEPT ![c] = @ + 1]
            /\ Resolve(c, extractToolsFromOutput(Concat(output[c])),
                       {"info.terminated"} \cup ExtractDiag(Concat(output[c])))
       ELSE UNCHANGED <<kills, killed, extractions, cachedTools, phase, returned,
                        diag, done>>
  /\ UNCHANGED <<errorListener, serverId, childProcess, graceTimer,
                 output, errorOutput, written, spawnResult, spawnEnv, spawnCount, cleared, before>>

\* The results a discoverTools call can store.
Results == {extractToolsFromOutput(Concat(o)) : o \in {<<>>} \cup {<<ch>> : ch \in Chunks}}

\* Another call of the engine reaches its line 50 and stores its result.
otherCall(s, tools) ==
  /\ cachedTools' = CacheSet(s, tools)
  /\ UNCHANGED <<errorListener, phase, serverId, returned, session, diag, history>>

(***************************************************************************)
(* Spec: the first call in every handler of its session.                   *)
(***************************************************************************)
Next ==
  \/ \E s \in Servers, command \in BOOLEAN, spawned \in SpawnResults :
       discoverTools(1, s, command, spawned) /\ UNCHANGED others
  \/ clearCache /\ UNCHANGED others
  \/ onError /\ UNCHANGED others
  \/ \E s \in Servers, tools \in Results : otherCall(s, tools) /\ UNCHANGED others
  \/ graceHandler(1) /\ UNCHANGED others
  \/ \E chunk \in Chunks : stdoutData(1, chunk) /\ UNCHANGED others
  \/ \E chunk \in Chunks : stderrData(1, chunk) /\ UNCHANGED others
  \/ \E code \in ExitCodes : closeHandler(1, code) /\ UNCHANGED others
  \/ errorHandler(1) /\ UNCHANGED others
  \/ timeoutHandler(1) /\ UNCHANGED others

Spec == Init /\ [][Next]_vars

\* The event loop runs a due timer and the next tick's 'error' event.
FairSpec ==
  /\ Spec
  /\ WF_vars(timeoutHandler(1) /\ UNCHANGED others)
  /\ WF_vars(errorHandler(1) /\ UNCHANGED others)

(***************************************************************************)
(* CacheSpec: overlapping calls whose children write to stdout and close.  *)
(***************************************************************************)
CacheNext ==
  \/ \E c \in Calls, s \in Servers : discoverTools(c, s, TRUE, "ok") /\ UNCHANGED others
  \/ clearCache /\ UNCHANGED others
  \/ \E c \in Calls, chunk \in Chunks : stdoutData(c, chunk) /\ UNCHANGED others
  \/ \E c \in Calls : closeHandler(c, "zero") /\ UNCHANGED others

CacheSpec == Init /\ [][CacheNext]_vars

(***************************************************************************)
(* ExtractSpec: one call whose child answers tools/list on stdout with one *)
(* of the texts servers write, each in its own 'data' event.               *)
(***************************************************************************)

\* {"name":"x"}
ToolObject(x) == <<P("{"), S("name"), P(":"), S(x), P("}")>>

\* The tools/list response of docs/tool-discovery.md, on one line:
\* {"jsonrpc":"2.0","id":1,"result":{"tools":[{"name":"a"},{"name":"b"}]}}
ToolsReply ==
  <<P("{"), S("jsonrpc"), P(":"), S("2.0"), P(","), S("id"), P(":"), W("1"), P(","),
    S("result"), P(":"), P("{"), S("tools"), P(":"), P("[")>>
  \o ToolObject("a") \o <<P(",")>> \o ToolObject("b")
  \o <<P("]"), P("}"), P("}"), NL>>

\* A response whose serializer writes the members in another order and whose
\* server lists one tool twice:
\* {"result":{"tools":[{"name":"a"},{"name":"a"}]},"id":1,"jsonrpc":"2.0"}
RepeatedReply ==
  <<P("{"), S("result"), P(":"), P("{"), S("tools"), P(":"), P("[")>>
  \o ToolObject("a") \o <<P(",")>> \o ToolObject("a")
  \o <<P("]"), P("}"), P(","), S("id"), P(":"), W("1"), P(","),
       S("jsonrpc"), P(":"), S("2.0"), P("}"), NL>>

\* An OpenAI-style manifest: {"functions":[{"name":"f"},{"name":"g"}]}
FunctionsBlock ==
  <<P("{"), S("functions"), P(":"), P("[")>>
  \o ToolObject("f") \o <<P(",")>> \o ToolObject("g")
  \o <<P("]"), P("}"), NL>>

\* The bare text "name": "sleep", with no line break behind it.
SleepText == <<S("name"), P(":"), S("sleep")>>

\* A single function object on a line of its own: {"name":"a"}
ObjectLine == ToolObject("a") \o <<NL>>

\* A log line declaring a function: function: read_file
FunctionLine == <<W("function"), P(":"), W("read_file"), NL>>

\* A log line that mentions an identifier: get_time
IdentifierLine == <<W("get_time"), NL>>

\* What a server writes to stdout in one 'data' event.
Replies ==
  {ToolsReply, RepeatedReply, FunctionsBlock, ToolsReply \o FunctionsBlock,
   ObjectLine, ObjectLine \o SleepText, SleepText, FunctionLine,
   FunctionLine \o IdentifierLine, IdentifierLine, NameLine, NoiseLine}

ExtractNext ==
  \/ \E s \in Servers : discoverTools(1, s, TRUE, "ok") /\ UNCHANGED others
  \/ graceHandler(1) /\ UNCHANGED others
  \/ \E chunk \in Replies : stdoutData(1, chunk) /\ UNCHANGED others
  \/ \E code \in ExitCodes : closeHandler(1, code) /\ UNCHANGED others
  \/ timeoutHandler(1) /\ UNCHANGED others

ExtractSpec == Init /\ [][ExtractNext]_vars

(***************************************************************************)
(* EnvSpec: the first call under every ambient environment and every env   *)
(* member of the server configurations.                                    *)
(***************************************************************************)
EnvInit ==
  /\ constructed
  /\ parserIdle
  /\ watcherConstructed
  /\ aiConstructed([enabled |-> TRUE, cache |-> TRUE, maxAge |-> 2])
  /\ ambientEnv \in AmbientEnvs
  /\ configEnv \in [Servers -> ConfigEnvs]

EnvNext ==
  \/ \E s \in Servers, command \in BOOLEAN, spawned \in SpawnResults :
       discoverTools(1, s, command, spawned) /\ UNCHANGED others
  \/ onError /\ UNCHANGED others
  \/ \E code \in ExitCodes : closeHandler(1, code) /\ UNCHANGED others
  \/ errorHandler(1) /\ UNCHANGED others
  \/ timeoutHandler(1) /\ UNCHANGED others

EnvSpec == EnvInit /\ [][EnvNext]_vars

(***************************************************************************)
(* SinkSpec: calls that fail before a process runs (no command configured, *)
(* spawn() throwing, the child emitting 'error'), made with and without a  *)
(* listener for 'error' on the engine.                                     *)
(***************************************************************************)
SinkNext ==
  \/ \E c \in Calls, s \in Servers, command \in BOOLEAN, spawned \in {"error", "throw"} :
       discoverTools(c, s, command, spawned) /\ UNCHANGED others
  \/ onError /\ UNCHANGED others
  \/ \E c \in Calls : errorHandler(c) /\ UNCHANGED others
  \/ \E c \in Calls : graceHandler(c) /\ UNCHANGED others
  \/ \E c \in Calls : closeHandler(c, "nonzero") /\ UNCHANGED others
  \/ \E c \in Calls : timeoutHandler(c) /\ UNCHANGED others

SinkSpec == Init /\ [][SinkNext]_vars

(***************************************************************************)
(* ParserSpec: MCPSettingsParser.discoverToolsForServer around one call of *)
(* the engine.  The parser's constructor registers on the engine and on    *)
(* the AI helper listeners that emit the same event on the parser (lines   *)
(* 426-429, 438-441), so an emit of 'error' by either returns normally     *)
(* exactly when the parser itself has a listener for 'error': under this   *)
(* specification errorListener is that listener, and onError registers it  *)
(* (index.js line 126).                                                    *)
(***************************************************************************)

\* The names of this specification in the order of Array.prototype.sort().
NameOrder == <<"fetch", "forecast", "ping", "s1_tool", "s2_tool">>

\* tools.sort(): the occurrences of each name, name by name in that order.
RECURSIVE Sort(_, _)
Sort(tools, k) ==
  IF k > Len(NameOrder) THEN <<>>
  ELSE SelectSeq(tools, LAMBDA x : x = NameOrder[k]) \o Sort(tools, k + 1)

\* for (const tool of more) if (!tools.includes(tool)) tools.push(tool)
RECURSIVE Include(_, _)
Include(tools, more) ==
  IF more = <<>> THEN tools
  ELSE Include(IF \E k \in 1..Len(tools) : tools[k] = Head(more)
                 THEN tools ELSE Append(tools, Head(more)),
               Tail(more))

\* `${serverName}_tool` of lines 589-590.
defaultTool(s) == IF s = "s1" THEN "s1_tool" ELSE "s2_tool"

\* Lines 587-601: the default name when there is none, sort, unique.
Finish(tools, s) ==
  Unique(Sort(IF tools = <<>> THEN <<defaultTool(s)>> ELSE tools, 1))

\* serverConfig.autoApprove, <<>> when the configuration has none.
AutoApproves == {<<>>, <<"ping">>, <<"fetch">>}

\* What predictToolsForServer resolves with.
Predictions == {<<>>, <<"forecast">>, <<"ping", "forecast">>}

\* discoverToolsForServer(serverId, serverConfig) up to its first await, lines
\* 534-547.
discoverToolsForServer(s, approve, ai, discovery, command, spawned) ==
  /\ stage = "idle"
  /\ parserConfig' = [serverId |-> s, autoApprove |-> approve, ai |-> ai,
                      discovery |-> discovery]
  /\ parserTools' = approve
  /\ stage' = "discovery"
  /\ IF discovery THEN discoverTools(1, s, command, spawned) ELSE UNCHANGED engine
  /\ UNCHANGED <<aiCalls, environment, watcherVars, aiVars>>

\* Lines 548-570: the await of discoverTools has settled (or discovery is
\* disabled); the names are included and the AI fallback is decided.  After a
\* rejection the catch of lines 560-562 emits 'error' on the parser, which
\* throws out of discoverToolsForServer when the parser has no listener.
afterDiscovery ==
  /\ stage = "discovery"
  /\ parserConfig.discovery => phase[1] \in {"fulfilled", "rejected"}
  /\ LET discoveredTools == IF parserConfig.discovery /\ phase[1] = "fulfilled"
                              THEN returned[1] ELSE <<>>
         tools == Include(parserTools, discoveredTools)
     IN IF parserConfig.discovery /\ phase[1] = "rejected" /\ ~errorListener
          THEN /\ stage' = "threw"
               /\ UNCHANGED <<parserTools, aiCalls>>
          ELSE IF /\ Len(tools) = 0 \/ Len(tools) = Len(parserConfig.autoApprove)
                  /\ parserConfig.ai
            THEN /\ stage' = "prediction"
                 /\ parserTools' = tools
                 /\ aiCalls' = aiCalls + 1
            ELSE /\ stage' = "done"
                 /\ parserTools' = Finish(tools, parserConfig.serverId)
                 /\ UNCHANGED aiCalls
  /\ UNCHANGED <<engine, environment, parserConfig, watcherVars, aiVars>>

\* Lines 571-604: the await of predictToolsForServer has settled with aiTools
\* (<<>> after a failed prediction, ai-helper.js lines 143-146).  With no
\* listener on the parser the helper's emit of 'error' throws, the prediction
\* rejects, and the emit of line 583 throws out of discoverToolsForServer.
afterPrediction(aiTools, failed) ==
  /\ stage = "prediction"
  /\ failed => aiTools = <<>>
  /\ IF failed /\ ~errorListener
       THEN /\ stage' = "threw"
            /\ UNCHANGED parserTools
       ELSE /\ stage' = "done"
            /\ parserTools' = Finish(Include(parserTools, aiTools),
                                     parserConfig.serverId)
  /\ UNCHANGED <<engine, environment, parserConfig, aiCalls, watcherVars, aiVars>>

ParserNext ==
  \/ onError /\ UNCHANGED others
  \/ \E s \in Servers, approve \in AutoApproves, ai \in BOOLEAN, discovery \in BOOLEAN,
        command \in BOOLEAN, spawned \in SpawnResults :
       discoverToolsForServer(s, approve, ai, discovery, command, spawned)
  \/ afterDiscovery
  \/ \E aiTools \in Predictions, failed \in BOOLEAN : afterPrediction(aiTools, failed)
  \/ graceHandler(1) /\ UNCHANGED others
  \/ \E chunk \in Chunks : stdoutData(1, chunk) /\ UNCHANGED others
  \/ \E code \in ExitCodes : closeHandler(1, code) /\ UNCHANGED others
  \/ errorHandler(1) /\ UNCHANGED others
  \/ timeoutHandler(1) /\ UNCHANGED others

ParserSpec == Init /\ [][ParserNext]_vars

(***************************************************************************)
(* The promise of discoverTools                                            *)
(***************************************************************************)

\* C1: discoverTools never throws and never rejects to its caller: no call
\* is ever in the rejected phase, whatever the failure on the way.
C1_NeverRejects == \A c \in Calls : phase[c] # "rejected"

\* C2: every call of discoverTools eventually returns to its caller, given
\* that the event loop runs the timeout timer when it is due: a pending call
\* leads to a settled one.  Spec runs call 1 in every handler of its session.
C2_EventuallyReturns ==
  (phase[1] = "pending") ~> (phase[1] \in {"fulfilled", "rejected"})

\* The case of C2: the call returned while its child, which never wrote a
\* byte, still runs; only the timeout can have returned it.
C2_ReturnedByTimeout ==
  /\ phase[1] = "fulfilled"
  /\ childProcess[1] = "running"
  /\ output[1] = <<>>
  /\ errorOutput[1] = <<>>
  /\ ~timeoutTimer[1]

(***************************************************************************)
(* The cache                                                               *)
(***************************************************************************)

\* C3: when a call for serverId S returned after completing extraction, a
\* later call for S with no clearCache() in between returns the identical
\* result and spawns no process.
C3_LaterCallIdentical ==
  \A b \in Calls : \A a \in before[b] :
    (phase[b] # "idle" /\ serverId[a] = serverId[b]) =>
      /\ phase[b] = "fulfilled"
      /\ returned[b] = returned[a]
      /\ childProcess[b] = "none"

\* C4: between two clearCache() calls a serverId is probed by spawning a
\* process at most once, overlapping calls for the same serverId included.
C4_SpawnedAtMostOnce == \A s \in Servers : spawnCount[s] <= 1

\* C5: after clearCache() the next call of discoverTools, for any serverId,
\* finds no entry and attempts a fresh spawn.
C5_FreshSpawnAfterClear ==
  [][\A c \in Calls :
       (cleared /\ phase[c] = "idle" /\ phase'[c] # "idle") =>
         (spawnResult'[c] # "none" /\ "debug.cached" \notin diag'[c])]_vars

\* C6: when spawning the process fails, the call returns an empty result,
\* emits an error diagnostic and creates no cache entry for the serverId.
C6_SpawnFailureNotCached ==
  \A c \in Calls :
    (spawnResult[c] \in {"notFound", "error", "throw"}
       /\ phase[c] \in {"fulfilled", "rejected"}) =>
      /\ phase[c] = "fulfilled"
      /\ returned[c] = <<>>
      /\ "error.failed" \in diag[c]
      /\ "debug.discovered" \notin diag[c]

\* C7: when a call spawned a process and no extraction strategy finds a name
\* in either stream, the call returns the empty collection and caches it:
\* later calls for that serverId, with no clearCache() in between, return
\* the empty collection and spawn nothing.
C7_EmptyResultCached ==
  \A a \in Calls :
    (/\ spawnResult[a] \in Started
     /\ phase[a] = "fulfilled"
     /\ extractToolsFromOutput(Concat(output[a])) = <<>>
     /\ extractToolsFromOutput(Concat(errorOutput[a])) = <<>>) =>
      /\ returned[a] = <<>>
      /\ \A b \in Calls :
           (a \in before[b] /\ phase[b] # "idle" /\ serverId[b] = serverId[a]) =>
             (returned[b] = <<>> /\ childProcess[b] = "none")

\* C8: a cache entry, once created, is never removed or changed by anything
\* but clearCache(): every other step leaves each existing entry as it is.
C8_EntryOnlyCleared ==
  [][clearCache \/ \A s \in DOMAIN cachedTools :
                     s \in DOMAIN cachedTools' /\ cachedTools'[s] = cachedTools[s]]_vars

(***************************************************************************)
(* The race of exit and timeout                                            *)
(***************************************************************************)

\* C9: in each session exactly one of the two paths, exit or timeout,
\* resolves it, and extraction over the accumulated output runs exactly once:
\* never twice, and once when the session has resolved.
C9_ExtractionOnce ==
  \A c \in Calls :
    /\ extractions[c] <= 1
    /\ (phase[c] = "fulfilled" /\ spawnResult[c] \in Started) => extractions[c] = 1

\* C10: the timeout kills the process only if it is still alive; fired after
\* the process has exited it is a no-op: no kill, no termination diagnostic,
\* and the result of the call is as it was.
C10_LateTimeoutNoOp ==
  [][\A c \in Calls :
       (timeoutTimer[c] /\ ~timeoutTimer'[c] /\ childProcess[c] = "closed") =>
         /\ killed'[c] = killed[c]
         /\ "info.terminated" \notin diag'[c] \ diag[c]
         /\ returned'[c] = returned[c]
         /\ phase'[c] = phase[c]]_vars

(***************************************************************************)
(* The session of a call                                                   *)
(***************************************************************************)

\* C11: on every exit path, at the moment the call returns its subprocess has
\* terminated and been reaped (its 'close' event has occurred): no call that
\* started a process has returned while that process is not closed.
C11_ChildReapedAtReturn ==
  \A c \in Calls :
    (phase[c] \in {"fulfilled", "rejected"} /\ spawnResult[c] \in Started) =>
      childProcess[c] = "closed"

\* C12: within one call extraction never begins before the exchange has
\* resolved, by the child's 'close' or by the timeout, and the call writes the
\* cache only after an extraction: a call whose handlers have extracted has a
\* closed child or a fired timeout, and a call that stored its result has
\* extracted.
C12_ExtractThenCache ==
  \A c \in Calls :
    /\ extractions[c] > 0 => (childProcess[c] = "closed" \/ ~timeoutTimer[c])
    /\ "debug.discovered" \in diag[c] => extractions[c] > 0

\* The case of C12: the child wrote a tool's name and closed, the close
\* handler extracted once, and the call stored and returned the name.
C12_ExtractedAndCached ==
  /\ phase[1] = "fulfilled"
  /\ childProcess[1] = "closed"
  /\ timeoutTimer[1]
  /\ extractions[1] = 1
  /\ returned[1] = <<"ping">>
  /\ "debug.discovered" \in diag[1]

\* C13: a process that never exits and never emits parseable output is killed
\* when the timeout elapses and the call then resolves with an empty result:
\* the timeout step of a pending call whose child still runs and whose stdout
\* names no tool signals the child and fulfils the call with no name.
C13_SilentChildTimesOut ==
  [][\A c \in Calls :
       (/\ timeoutTimer[c] /\ ~timeoutTimer'[c]
        /\ phase[c] = "pending"
        /\ childProcess[c] = "running"
        /\ extractToolsFromOutput(Concat(output[c])) = <<>>) =>
         /\ kills'[c] = kills[c] + 1
         /\ killed'[c]
         /\ phase'[c] = "fulfilled"
         /\ returned'[c] = <<>>]_vars

\* The case of C13: the child wrote a line that names nothing, never exited,
\* was signalled by the timeout, and the call returned the empty result.
C13_NoisyChildKilled ==
  /\ phase[1] = "fulfilled"
  /\ childProcess[1] = "running"
  /\ output[1] = <<NoiseLine>>
  /\ killed[1]
  /\ kills[1] = 1
  /\ returned[1] = <<>>

\* C14: when the timeout fires while the process is still running this is not
\* an error: extraction runs over the stdout captured so far, the names found
\* are returned and stored in the cache under the serverId, the info
\* diagnostic is emitted and the error diagnostic is not.
C14_TimeoutIsNotAnError ==
  [][\A c \in Calls :
       (/\ timeoutTimer[c] /\ ~timeoutTimer'[c]
        /\ phase[c] = "pending"
        /\ childProcess[c] = "running") =>
         /\ extractions'[c] = extractions[c] + 1
         /\ phase'[c] = "fulfilled"
         /\ returned'[c] = extractToolsFromOutput(Concat(output[c]))
         /\ serverId[c] \in DOMAIN cachedTools'
         /\ cachedTools'[serverId[c]] = extractToolsFromOutput(Concat(output[c]))
         /\ "info.terminated" \in diag'[c]
         /\ "error.failed" \notin diag'[c]]_vars

\* The case of C14: the child wrote a name and kept running; the timeout
\* killed it and the call returned and cached that name with no error.
C14_PartialOutputReturned ==
  /\ phase[1] = "fulfilled"
  /\ childProcess[1] = "running"
  /\ killed[1]
  /\ output[1] = <<NameLine>>
  /\ returned[1] = <<"ping">>
  /\ serverId[1] \in DOMAIN cachedTools
  /\ cachedTools[serverId[1]] = <<"ping">>
  /\ "info.terminated" \in diag[1]
  /\ "error.failed" \notin diag[1]

\* C15: whichever path resolves the session (close or timeout), when
\* extraction over the accumulated stdout yields no name the chain is applied
\* to the accumulated stderr and its names become the result.
C15_StderrFallbackOnEveryPath ==
  [][\A c \in Calls :
       (/\ phase[c] = "pending"
        /\ phase'[c] = "fulfilled"
        /\ extractToolsFromOutput(Concat(output[c])) = <<>>) =>
         returned'[c] = extractToolsFromOutput(Concat(errorOutput[c]))]_vars

(***************************************************************************)
(* The extraction chain                                                    *)
(***************************************************************************)

\* C16: every collection returned by discoverTools and every value stored in
\* the cache contains each tool name at most once, whichever strategy
\* produced the names, also when the text names one tool several times.
C16_NamesUnique ==
  /\ \A c \in Calls : \A i, j \in 1..Len(returned[c]) :
       returned[c][i] = returned[c][j] => i = j
  /\ \A s \in DOMAIN cachedTools : \A i, j \in 1..Len(cachedTools[s]) :
       cachedTools[s][i] = cachedTools[s][j] => i = j

C18_ToolsReplyYieldsBoth ==
  [][\A c \in Calls :
    (/\ phase[c] = "pending" /\ phase'[c] = "fulfilled"
     /\ \E k \in 1..Len(output[c]) : output[c][k] = ToolsReply) =>
      {returned'[c][i] : i \in 1..Len(returned'[c])} = {"a", "b"}]_vars

\* C19: for output with both a valid JSON-RPC tools response and an unrelated
\* functions block the result consists only of the names of the JSON-RPC
\* response: no name of the functions block is in it.
C19_FunctionsNotMerged ==
  [][\A c \in Calls :
    (/\ phase[c] = "pending" /\ phase'[c] = "fulfilled"
     /\ output[c] = <<ToolsReply \o FunctionsBlock>>) =>
      {returned'[c][i] : i \in 1..Len(returned'[c])} \subseteq {"a", "b"}]_vars

\* C20: for output that is only the text "name": "sleep" the JSON-RPC and
\* function-manifest strategies yield nothing and the line scan yields sleep,
\* which the result contains.
C20_BareNameByLineScan ==
  [][\A c \in Calls :
    (phase[c] = "pending" /\ phase'[c] = "fulfilled" /\ output[c] = <<SleepText>>) =>
      /\ Pattern0(RpcMatches(SleepText, 1), 1) = <<>>
      /\ Pattern1(JsonMatches(SleepText, 1), 1, <<>>).tools = <<>>
      /\ \E i \in 1..Len(Pattern2(Split(SleepText))) : Pattern2(Split(SleepText))[i] = "sleep"
      /\ \E i \in 1..Len(returned'[c]) : returned'[c][i] = "sleep"]_vars

\* The case of C20: the child wrote "name": "sleep" and nothing else, and the
\* call returned sleep.
C20_SleepReturned ==
  /\ phase[1] = "fulfilled"
  /\ extractions[1] = 1
  /\ output[1] = <<SleepText>>
  /\ returned[1] = <<"sleep">>

(***************************************************************************)
(* The request, the environment, the diagnostic sink                       *)
(***************************************************************************)

C22_EnvPrecedence ==
  \A c \in Calls :
    spawnResult[c] # "none" =>
      LET caller == configEnv[serverId[c]]
      IN /\ DOMAIN spawnEnv[c] =
              DOMAIN ambientEnv \cup DOMAIN caller \cup DOMAIN DiscoveryEnv
         /\ \A n \in DOMAIN spawnEnv[c] :
              spawnEnv[c][n] = IF n \in DOMAIN DiscoveryEnv THEN DiscoveryEnv[n]
                               ELSE IF n \in DOMAIN caller THEN caller[n]
                               ELSE ambientEnv[n]

\* The case of C22: the caller sets NODE_ENV, MCP_DISCOVERY_MODE and API_KEY,
\* the ambient environment sets API_KEY, MCP_LIST_TOOLS and PATH; the child
\* runs with the discovery values, the caller's API_KEY and the ambient PATH.
C22_CallerNodeEnvReplaced ==
  /\ childProcess[1] = "running"
  /\ ambientEnv = [PATH |-> "/usr/bin", MCP_LIST_TOOLS |-> "false", API_KEY |-> "ambient"]
  /\ configEnv[serverId[1]] =
       [NODE_ENV |-> "test", MCP_DISCOVERY_MODE |-> "false", API_KEY |-> "caller"]
  /\ spawnEnv[1].NODE_ENV = "discovery"
  /\ spawnEnv[1].MCP_DISCOVERY_MODE = "true"
  /\ spawnEnv[1].MCP_LIST_TOOLS = "true"
  /\ spawnEnv[1].API_KEY = "caller"
  /\ spawnEnv[1].PATH = "/usr/bin"

\* C23: the diagnostic sink is advisory: for the same inputs and the same
\* behaviour of the subprocess discoverTools returns the same result whether
\* or not a listener is registered.  Two calls for one serverId that were not
\* served from the cache and whose spawn ended the same way (none made, thrown,
\* failed) have ended alike.
C23_ListenersAdvisory ==
  \A a, b \in Calls :
    (/\ phase[a] \in {"fulfilled", "rejected"} /\ phase[b] \in {"fulfilled", "rejected"}
     /\ serverId[a] = serverId[b]
     /\ spawnResult[a] = spawnResult[b]
     /\ spawnResult[a] \in {"none", "error", "throw"}
     /\ "debug.cached" \notin diag[a] \cup diag[b]) =>
      /\ phase[a] = phase[b]
      /\ returned[a] = returned[b]

(***************************************************************************)
(* The parser's use of the engine                                          *)
(***************************************************************************)

\* C24: discoverToolsForServer consults the AI prediction fallback only when
\* the discovery engine yielded no name: predictToolsForServer is not called
\* when discoverTools returned at least one name.
C24_AiOnlyWhenNothingDiscovered ==
  [][aiCalls' # aiCalls =>
       ~(parserConfig.discovery /\ phase[1] = "fulfilled" /\ returned[1] # <<>>)]_vars


\* ---------------------------------------------------------------------------
\* MCPConfigWatcher
\* ---------------------------------------------------------------------------

\* The most calls of start, stop, handleFileChange and forceUpdate in one
\* behaviour.
MaxOps == 2

\* The most calls of withRetry in one behaviour.
MaxRetryOps == 2

\* getFileHash reads the file at most this often, line 140.
HashRetries == 3

\* The values of withRetry's maxRetries; 3 is its default.
RetryLimits == 1..3

Hashes == {"h1", "h2"}

\* The frame of a call that has just been made.  attempts counts the
\* operations started, tries lists how each ended, error is the attempt
\* whose error was thrown, closing is the handle stop() is closing.
Frame(kind, pc) ==
  [kind |-> kind, pc |-> pc, attempts |-> 0, max |-> 0, tries |-> <<>>,
   error |-> 0, closing |-> 0, ret |-> "pending", emits |-> <<>>]

Emit(op, event) == [op EXCEPT !.emits = Append(@, event)]

Return(op, value) == [op EXCEPT !.pc = "returned", !.ret = value]

\* this.emit('error', ...) followed by `return value`: with no listener for
\* 'error' the emit throws, and wherever the watcher emits 'error' the throw
\* leaves the method, since the catch blocks emit 'error' themselves.
EmitError(op, value) ==
  Return(Emit(op, "error"), IF watcherErrorListener THEN value ELSE "threw")

\* An attempt of a retry loop has ended.
Tried(op, outcome) == [op EXCEPT !.tries = Append(@, outcome)]

\* The last attempt failed: its error leaves the loop.
Thrown(op) == [Tried(op, "fail") EXCEPT !.error = op.attempts]

\* A failed attempt that is followed by another: the warning and the backoff.
Retry(op) == [Emit(Tried(op, "fail"), "warning") EXCEPT !.pc = "backoff"]

\* The frame that runs, and the frame that called it.
Top(o) == ops[o][Len(ops[o])]

Caller(o) == ops[o][Len(ops[o]) - 1]

\* The calls whose running frame is of this method and at this await.
Pending(kind, pc) ==
  {o \in DOMAIN ops : Top(o).kind = kind /\ Top(o).pc = pc}

\* The calls where a frame of this method awaits a callee that has settled.
Awaited(kind, pc) ==
  {o \in DOMAIN ops : /\ Len(ops[o]) > 1
                      /\ Top(o).pc = "returned"
                      /\ Caller(o).kind = kind
                      /\ Caller(o).pc = pc}

\* The running frame goes on.
Step(o, op) == [ops EXCEPT ![o] = [@ EXCEPT ![Len(@)] = op]]

\* The running frame calls a method and awaits it.
Call(o, op, callee) ==
  [ops EXCEPT ![o] = Append([@ EXCEPT ![Len(@)] = op], callee)]

\* The caller of a settled callee goes on.
Resume(o, op) ==
  [ops EXCEPT ![o] = Append(SubSeq(@, 1, Len(@) - 2), op)]

file == <<fileExists, content>>

handle == <<running, watcher, lastHash, watchCalls, closedWatchers>>

\* watcher.on('error', ...), as setupEventHandlers and the tests do.
watcherOnError ==
  /\ ~watcherErrorListener
  /\ watcherErrorListener' = TRUE
  /\ UNCHANGED <<handle, file, ops>>

\* The settings file is rewritten with other content, or created.
writeFile(h) ==
  /\ ~(fileExists /\ content = h)
  /\ fileExists' = TRUE
  /\ content' = h
  /\ UNCHANGED <<handle, watcherErrorListener, ops>>

removeFile ==
  /\ fileExists
  /\ fileExists' = FALSE
  /\ UNCHANGED <<content, handle, watcherErrorListener, ops>>

\* start() that does not look at this.running.
startAgainEntry == Frame("start", "exists")

\* start() up to its first await, lines 27-37.
startEntry ==
  IF running
    THEN Return(Emit(Frame("start", "returned"), "info"), "true")
    ELSE Frame("start", "exists")

start ==
  /\ Len(ops) < MaxOps
  /\ ops' = Append(ops, <<startEntry>>)
  /\ UNCHANGED <<handle, file, watcherErrorListener>>

\* getFileHash() up to its first await, lines 138-149.
getFileHashEntry ==
  [Frame("getFileHash", "read") EXCEPT !.attempts = 1, !.max = HashRetries]

\* start() after pathExists, lines 37-43.
startExists(o) ==
  /\ o \in Pending("start", "exists")
  /\ ops' = IF fileExists
              THEN Call(o, [Top(o) EXCEPT !.pc = "hash"], getFileHashEntry)
              ELSE Step(o, EmitError(Top(o), "false"))
  /\ UNCHANGED <<handle, file, watcherErrorListener>>

\* start() after getFileHash, lines 43-68.
startHashed(o) ==
  /\ o \in Awaited("start", "hash")
  /\ IF Top(o).ret = "threw"
       THEN /\ ops' = Resume(o, EmitError(Caller(o), "false"))
            /\ UNCHANGED handle
       ELSE /\ lastHash' = Top(o).ret
            /\ watchCalls' = watchCalls + 1
            /\ watcher' = watchCalls + 1
            /\ running' = TRUE
            /\ ops' = Resume(o, Return(Emit(Caller(o), "started"), "true"))
            /\ UNCHANGED closedWatchers
  /\ UNCHANGED <<file, watcherErrorListener>>

\* stop() up to its first await, lines 75-82.
stop ==
  /\ Len(ops) < MaxOps
  /\ ops' = Append(ops,
       IF ~running \/ watcher = 0
         THEN <<Return(Emit(Frame("stop", "returned"), "info"), "true")>>
         ELSE <<[Frame("stop", "close") EXCEPT !.closing = watcher]>>)
  /\ UNCHANGED <<handle, file, watcherErrorListener>>

\* stop() that leaves this.running and this.watcher as they are.
stopKeepsRunning(o, closes) ==
  /\ o \in Pending("stop", "close")
  /\ ops' = Step(o, Return(Emit(Top(o), "stopped"), "true"))
  /\ UNCHANGED <<handle, file, watcherErrorListener>>

\* stop() after watcher.close(), lines 82-90.
stopClosed(o, closes) ==
  /\ o \in Pending("stop", "close")
  /\ IF closes
       THEN /\ closedWatchers' = closedWatchers \cup {Top(o).closing}
            /\ watcher' = 0
            /\ running' = FALSE
            /\ ops' = Step(o, Return(Emit(Top(o), "stopped"), "true"))
            /\ UNCHANGED <<lastHash, watchCalls>>
       ELSE /\ ops' = Step(o, EmitError(Top(o), "false"))
            /\ UNCHANGED handle
  /\ UNCHANGED <<file, watcherErrorListener>>

\* getFileHash() after readFile, lines 149-179: the hash of what was read, or
\* a warning and the backoff, or after the last attempt the outer catch.
getFileHashRead(o, reads) ==
  /\ o \in Pending("getFileHash", "read")
  /\ reads => fileExists
  /\ ops' = Step(o,
       IF reads THEN Return(Tried(Top(o), "ok"), content)
       ELSE IF Top(o).attempts >= Top(o).max THEN EmitError(Thrown(Top(o)), "")
       ELSE Retry(Top(o)))
  /\ UNCHANGED <<handle, file, watcherErrorListener>>

\* The backoff has elapsed: the next attempt, lines 143-149.
getFileHashBackoff(o) ==
  /\ o \in Pending("getFileHash", "backoff")
  /\ ops' = Step(o, [Top(o) EXCEPT !.pc = "read", !.attempts = @ + 1])
  /\ UNCHANGED <<handle, file, watcherErrorListener>>

\* handleFileChange() up to its first await, lines 110-115; chokidar's
\* 'change' handler of lines 54-57 and the tests call it.
handleFileChange ==
  /\ Len(ops) < MaxOps
  /\ ops' = Append(ops, <<Frame("handleFileChange", "hash"), getFileHashEntry>>)
  /\ UNCHANGED <<handle, file, watcherErrorListener>>

\* handleFileChange() that reports every change it is told of.
handleFileChangeAlways(o) ==
  /\ o \in Awaited("handleFileChange", "hash")
  /\ lastHash' = Top(o).ret
  /\ ops' = Resume(o, Return(Emit(Caller(o), "fileChanged"), "undefined"))
  /\ UNCHANGED <<running, watcher, watchCalls, closedWatchers, file,
                 watcherErrorListener>>

\* handleFileChange() after getFileHash, lines 115-129.
handleFileChangeHashed(o) ==
  /\ o \in Awaited("handleFileChange", "hash")
  /\ IF Top(o).ret = "threw"
       THEN /\ ops' = Resume(o, EmitError(Caller(o), "undefined"))
            /\ UNCHANGED lastHash
       ELSE IF lastHash = Top(o).ret
         THEN /\ ops' = Resume(o, Return(Emit(Caller(o), "info"), "undefined"))
              /\ UNCHANGED lastHash
         ELSE /\ lastHash' = Top(o).ret
              /\ ops' = Resume(o, Return(Emit(Caller(o), "fileChanged"),
                                         "undefined"))
  /\ UNCHANGED <<running, watcher, watchCalls, closedWatchers, file,
                 watcherErrorListener>>

\* forceUpdate() up to its first await, lines 186-194: this.start() when the
\* watcher is not running, else pathExists.
forceUpdate ==
  /\ Len(ops) < MaxOps
  /\ ops' = Append(ops,
       IF running
         THEN <<Frame("forceUpdate", "exists")>>
         ELSE <<Emit(Frame("forceUpdate", "start"), "warning"), startEntry>>)
  /\ UNCHANGED <<handle, file, watcherErrorListener>>

\* forceUpdate() after `await this.start()`, line 189, which is outside the
\* try block: a rejection of start() rejects forceUpdate().
forceUpdateStarted(o) ==
  /\ o \in Awaited("forceUpdate", "start")
  /\ ops' = Resume(o, IF Top(o).ret = "threw"
                        THEN Return(Caller(o), "threw")
                        ELSE [Caller(o) EXCEPT !.pc = "exists"])
  /\ UNCHANGED <<handle, file, watcherErrorListener>>

\* forceUpdate() after pathExists, lines 194-207.
forceUpdateExists(o) ==
  /\ o \in Pending("forceUpdate", "exists")
  /\ ops' = Step(o,
       IF fileExists
         THEN Return(Emit(Emit(Top(o), "info"), "fileChanged"), "true")
         ELSE EmitError(Top(o), "false"))
  /\ UNCHANGED <<handle, file, watcherErrorListener>>

\* withRetry(operation, maxRetries) up to its first await, lines 218-223.
withRetry(maxRetries) ==
  /\ Len(ops) < MaxRetryOps
  /\ ops' = Append(ops, <<[Frame("withRetry", "attempt")
                             EXCEPT !.attempts = 1, !.max = maxRetries]>>)
  /\ UNCHANGED <<handle, file, watcherErrorListener>>

\* withRetry() that warns of the failure it rethrows.
withRetryWarnsLast(o, succeeds) ==
  /\ o \in Pending("withRetry", "attempt")
  /\ ops' = Step(o,
       IF succeeds THEN Return(Tried(Top(o), "ok"), "result")
       ELSE IF Top(o).attempts >= Top(o).max
         THEN Return(Emit(Thrown(Top(o)), "warning"), "threw")
       ELSE Retry(Top(o)))
  /\ UNCHANGED <<handle, file, watcherErrorListener>>

\* withRetry() after `await operation()`, lines 223-233.
withRetryAttempt(o, succeeds) ==
  /\ o \in Pending("withRetry", "attempt")
  /\ ops' = Step(o,
       IF succeeds THEN Return(Tried(Top(o), "ok"), "result")
       ELSE IF Top(o).attempts >= Top(o).max
         THEN Return(Thrown(Top(o)), "threw")
       ELSE Retry(Top(o)))
  /\ UNCHANGED <<handle, file, watcherErrorListener>>

\* The backoff has elapsed: the loop condition and the next attempt.
withRetryBackoff(o) ==
  /\ o \in Pending("withRetry", "backoff")
  /\ ops' = Step(o, [Top(o) EXCEPT !.pc = "attempt", !.attempts = @ + 1])
  /\ UNCHANGED <<handle, file, watcherErrorListener>>

notWatcher == <<engine, environment, parserVars, aiVars>>

WatcherNext ==
  \/ watcherOnError /\ UNCHANGED notWatcher
  \/ \E h \in Hashes : writeFile(h) /\ UNCHANGED notWatcher
  \/ removeFile /\ UNCHANGED notWatcher
  \/ start /\ UNCHANGED notWatcher
  \/ \E o \in DOMAIN ops : startExists(o) /\ UNCHANGED notWatcher
  \/ \E o \in DOMAIN ops : startHashed(o) /\ UNCHANGED notWatcher
  \/ stop /\ UNCHANGED notWatcher
  \/ \E o \in DOMAIN ops, closes \in BOOLEAN : stopClosed(o, closes) /\ UNCHANGED notWatcher
  \/ \E o \in DOMAIN ops, reads \in BOOLEAN : getFileHashRead(o, reads) /\ UNCHANGED notWatcher
  \/ \E o \in DOMAIN ops : getFileHashBackoff(o) /\ UNCHANGED notWatcher
  \/ handleFileChange /\ UNCHANGED notWatcher
  \/ \E o \in DOMAIN ops : handleFileChangeHashed(o) /\ UNCHANGED notWatcher
  \/ forceUpdate /\ UNCHANGED notWatcher
  \/ \E o \in DOMAIN ops : forceUpdateStarted(o) /\ UNCHANGED notWatcher
  \/ \E o \in DOMAIN ops : forceUpdateExists(o) /\ UNCHANGED notWatcher

WatcherSpec == Init /\ [][WatcherNext]_vars

\* withRetry is called by none of the watcher's methods: its calls alone.
RetryNext ==
  \/ \E maxRetries \in RetryLimits : withRetry(maxRetries) /\ UNCHANGED notWatcher
  \/ \E o \in DOMAIN ops, succeeds \in BOOLEAN : withRetryAttempt(o, succeeds) /\ UNCHANGED notWatcher
  \/ \E o \in DOMAIN ops : withRetryBackoff(o) /\ UNCHANGED notWatcher

RetrySpec == Init /\ [][RetryNext]_vars


\* The settings file and the listener for the watcher's 'error' events.
surroundings ==
  \/ watcherOnError
  \/ \E h \in Hashes : writeFile(h)
  \/ removeFile

\* start() and stop() alone, with what they call.
LifecycleNext ==
  \/ surroundings /\ UNCHANGED notWatcher
  \/ start /\ UNCHANGED notWatcher
  \/ \E o \in DOMAIN ops : startExists(o) /\ UNCHANGED notWatcher
  \/ \E o \in DOMAIN ops : startHashed(o) /\ UNCHANGED notWatcher
  \/ stop /\ UNCHANGED notWatcher
  \/ \E o \in DOMAIN ops, closes \in BOOLEAN : stopClosed(o, closes) /\ UNCHANGED notWatcher
  \/ \E o \in DOMAIN ops, reads \in BOOLEAN : getFileHashRead(o, reads) /\ UNCHANGED notWatcher
  \/ \E o \in DOMAIN ops : getFileHashBackoff(o) /\ UNCHANGED notWatcher

LifecycleSpec == Init /\ [][LifecycleNext]_vars

\* start() and the changes of the file that the started watcher handles.
ChangeNext ==
  \/ surroundings /\ UNCHANGED notWatcher
  \/ start /\ UNCHANGED notWatcher
  \/ \E o \in DOMAIN ops : startExists(o) /\ UNCHANGED notWatcher
  \/ \E o \in DOMAIN ops : startHashed(o) /\ UNCHANGED notWatcher
  \/ handleFileChange /\ UNCHANGED notWatcher
  \/ \E o \in DOMAIN ops : handleFileChangeHashed(o) /\ UNCHANGED notWatcher
  \/ \E o \in DOMAIN ops, reads \in BOOLEAN : getFileHashRead(o, reads) /\ UNCHANGED notWatcher
  \/ \E o \in DOMAIN ops : getFileHashBackoff(o) /\ UNCHANGED notWatcher

ChangeSpec == Init /\ [][ChangeNext]_vars


\* ---------------------------------------------------------------------------
\* The watcher's contracts
\* ---------------------------------------------------------------------------

\* The call made by this step, if it makes one.
Made(kind) == Len(ops') = Len(ops) + 1 /\ ops'[Len(ops')][1].kind = kind

\* C25: start() called on a watcher that is running returns true at once,
\* having emitted one info event and nothing else, and the step changes
\* nothing: chokidar.watch() is not called again, running stays true, and the
\* handle and lastHash keep their values.
C25_StartOnRunningChangesNothing ==
  [][(running /\ Made("start")) =>
       /\ Len(ops'[Len(ops')]) = 1
       /\ ops'[Len(ops')][1].pc = "returned"
       /\ ops'[Len(ops')][1].ret = "true"
       /\ ops'[Len(ops')][1].emits = <<"info">>
       /\ running'
       /\ UNCHANGED <<watcher, lastHash, watchCalls, closedWatchers>>]_vars

\* A second start() has returned true with an info event while the watcher
\* that the first one created is the only one.
C25_SecondStartReturned ==
  /\ Len(ops) = 2
  /\ ops[1] = <<Return(Emit(Frame("start", "returned"), "started"), "true")>>
  /\ ops[2] = <<Return(Emit(Frame("start", "returned"), "info"), "true")>>
  /\ running /\ watcher = 1 /\ watchCalls = 1 /\ lastHash \in Hashes

\* C26: the step by which a stop() that found the watcher running returns true
\* leaves running false and the handle null; a stop() called on a watcher
\* that is not running returns true at once with one info event and the step
\* changes no state of the watcher.
C26_StopLeavesStopped ==
  /\ [][\A o \in DOMAIN ops :
          (Top(o).kind = "stop" /\ Top(o).pc = "close"
             /\ ops'[o][1].ret = "true")
          => (~running' /\ watcher' = 0)]_vars
  /\ [][(~running /\ Made("stop")) =>
          /\ ops'[Len(ops')] =
               <<Return(Emit(Frame("stop", "returned"), "info"), "true")>>
          /\ UNCHANGED handle]_vars

\* A stop() of a started watcher has returned true.
C26_StoppedAfterStart ==
  /\ Len(ops) = 2
  /\ ops[1][1].kind = "start" /\ ops[1][1].ret = "true"
  /\ ops[2] = <<Return(Emit([Frame("stop", "close") EXCEPT !.closing = 1],
                            "stopped"), "true")>>
  /\ ~running /\ watcher = 0 /\ closedWatchers = {1}


Warned(op) == {i \in DOMAIN op.tries : op.tries[i] = "fail" /\ i < op.max}

\* C28: withRetry never invokes the operation more than maxRetries times; a
\* successful attempt is the last one and its result is returned; the events
\* emitted are one warning for each failed attempt that another attempt
\* follows; and when maxRetries attempts have failed, and only then, the call
\* throws, the error being that of the last attempt.
C28_RetryContract ==
  \A o \in DOMAIN ops :
    ops[o][1].kind = "withRetry" =>
      LET op == ops[o][1]
          n == Len(op.tries)
      IN  /\ op.attempts <= op.max /\ n <= op.attempts
          /\ \A i \in 1..n : op.tries[i] = "ok" => i = n
          /\ op.emits = [i \in 1..Cardinality(Warned(op)) |-> "warning"]
          /\ op.ret = "result" <=> (n > 0 /\ op.tries[n] = "ok")
          /\ op.ret = "threw" <=> (n = op.max /\ op.tries[n] = "fail")
          /\ op.ret = "threw" => op.error = op.max
          /\ op.pc = "returned" <=> op.ret \in {"result", "threw"}

\* One call has thrown after three failures and two warnings, another has
\* returned the result of its second attempt after one warning.
C28_ThrownAndRetried ==
  /\ Len(ops) = 2
  /\ ops[1][1].kind = "withRetry"
  /\ ops[1][1].tries = <<"fail", "fail", "fail">>
  /\ ops[1][1].ret = "threw" /\ ops[1][1].error = 3
  /\ ops[1][1].emits = <<"warning", "warning">>
  /\ ops[2][1].tries = <<"fail", "ok">>
  /\ ops[2][1].ret = "result"
  /\ ops[2][1].emits = <<"warning">>


\* C29: a getFileHash call reads the file at most 3 times, a successful read
\* is its last and the hash of what it read is returned, after 3 failed reads
\* it has emitted an error event and returned the empty string, and it never
\* throws to its caller.
C29_HashNeverThrows ==
  \A o \in DOMAIN ops :
    Top(o).kind = "getFileHash" =>
      LET op == Top(o)
          n == Len(op.tries)
      IN  /\ op.attempts <= HashRetries /\ n <= op.attempts
          /\ \A i \in 1..n : op.tries[i] = "ok" => i = n
          /\ op.ret \in Hashes <=> (n > 0 /\ op.tries[n] = "ok")
          /\ (n = HashRetries /\ op.tries[n] = "fail") =>
               (op.emits = <<"warning", "warning", "error">> /\ op.ret = "")
          /\ op.ret # "threw"


\* C30: forceUpdate() called on a watcher that is not running calls start()
\* first; the step that follows its check of the settings file emits
\* fileChanged and returns true when the file exists, and when it is missing
\* emits an error, no fileChanged, and returns false; no forceUpdate() call
\* ends any other way.
C30_ForceUpdateContract ==
  /\ [](\A o \in DOMAIN ops :
          ops[o][1].kind = "forceUpdate" =>
            ops[o][1].ret \in {"pending", "true", "false"})
  /\ [][(~running /\ Made("forceUpdate")) =>
          (Len(ops'[Len(ops')]) = 2 /\ ops'[Len(ops')][2].kind = "start")]_vars
  /\ [][\A o \in DOMAIN ops :
          (o \in Pending("forceUpdate", "exists") /\ ops'[o] # ops[o]) =>
            IF fileExists
              THEN /\ ops'[o][1].ret = "true"
                   /\ ops'[o][1].emits[Len(ops'[o][1].emits)] = "fileChanged"
              ELSE /\ ops'[o][1].ret = "false"
                   /\ ops'[o][1].emits[Len(ops'[o][1].emits)] = "error"
                   /\ \A i \in DOMAIN ops'[o][1].emits :
                        ops'[o][1].emits[i] # "fileChanged"]_vars


\* ---------------------------------------------------------------------------
\* AIHelper
\* ---------------------------------------------------------------------------

\* The most calls of getOrCompute and predictToolsForServer in one behaviour.
MaxAiOps == 2

\* The clock stops here.
MaxClock == 3

\* maxAge when the configuration has none, line 63.
DefaultMaxAge == 86400000

\* config.ai as the helper reads it; maxAge 0 stands for a maxAge that is
\* missing or 0, which `||` treats alike.
AiConfigs == [enabled : BOOLEAN, cache : BOOLEAN, maxAge : {0, 1, 2}]

\* const maxAge, line 63.
maxAge == IF aiConfig.maxAge = 0 THEN DefaultMaxAge ELSE aiConfig.maxAge

\* isAvailable(), lines 44-46.
isAvailable == openai # "null" /\ aiConfig.enabled

CacheKeys == {"k1", "k2"}

\* `predict:${serverId}`, line 95.
PredictKey(s) == IF s = "s1" THEN "predict:s1" ELSE "predict:s2"

\* What a compute function resolves with.
Values == {<<"a">>, <<"b">>}

\* The arrays the API's reply parses to, lines 122-139.
ApiReplies == {<<>>, <<"forecast">>}

\* A cached value is served whatever its age.
Stale(key) == aiConfig.cache /\ key \in DOMAIN aiCache

\* Lines 57-67: caching is enabled and the entry of key is young enough.
Fresh(key) ==
  /\ aiConfig.cache
  /\ key \in DOMAIN aiCache
  /\ clock - aiCache[key].timestamp < maxAge

\* this.cache.set(key, {value, timestamp: Date.now()}), lines 75-78.
Store(key, value) ==
  [k \in DOMAIN aiCache \cup {key} |->
     IF k = key THEN [value |-> value, timestamp |-> clock] ELSE aiCache[k]]

\* A call: calls counts the invocations of the compute function, api those
\* of the API; hit says that the cache served it.
AiOp(method, key) ==
  [method |-> method, key |-> key, pc |-> "compute", value |-> <<>>,
   calls |-> 0, api |-> 0, hit |-> FALSE, emits |-> <<>>]

\* getOrCompute up to its await, lines 55-71.
Lookup(op) ==
  IF Fresh(op.key)
    THEN [op EXCEPT !.pc = "returned", !.value = aiCache[op.key].value,
                    !.hit = TRUE]
    ELSE [op EXCEPT !.calls = 1]

\* getOrCompute after `await computeFunc()`, lines 71-81: a throw of the
\* function leaves getOrCompute, a value is stored and returned.
Computed(o, throws, value) ==
  /\ aiOps' = [aiOps EXCEPT ![o].pc = IF throws THEN "threw" ELSE "returned",
                            ![o].value = IF throws THEN <<>> ELSE value]
  /\ aiCache' = IF ~throws /\ aiConfig.cache
                  THEN Store(aiOps[o].key, value) ELSE aiCache

\* helper.on('error', ...), as the parser's constructor and the tests do.
aiOnError ==
  /\ ~aiErrorListener
  /\ aiErrorListener' = TRUE
  /\ UNCHANGED <<aiConfig, openai, aiCache, clock, aiOps>>

\* The import of lines 21-30 settles.
importSettled(loaded) ==
  /\ openai = "undefined"
  /\ openai' = IF loaded THEN "client" ELSE "null"
  /\ UNCHANGED <<aiConfig, aiCache, clock, aiErrorListener, aiOps>>

\* Time passes.
tick ==
  /\ clock < MaxClock
  /\ clock' = clock + 1
  /\ UNCHANGED <<aiConfig, openai, aiCache, aiErrorListener, aiOps>>

getOrCompute(key) ==
  /\ Len(aiOps) < MaxAiOps
  /\ aiOps' = Append(aiOps, Lookup(AiOp("getOrCompute", key)))
  /\ UNCHANGED <<aiConfig, openai, aiCache, clock, aiErrorListener>>

\* The compute function of a getOrCompute call settles.
computeSettled(o, throws, value) ==
  /\ o \in DOMAIN aiOps
  /\ aiOps[o].method = "getOrCompute" /\ aiOps[o].pc = "compute"
  /\ Computed(o, throws, value)
  /\ UNCHANGED <<aiConfig, openai, clock, aiErrorListener>>

\* predictToolsForServer up to its await, lines 89-111.  With the import
\* still pending this.openai is undefined, the helper counts as available and
\* the compute function fails before it reaches the API.
predictToolsForServer(s) ==
  /\ Len(aiOps) < MaxAiOps
  /\ aiOps' = Append(aiOps,
       IF ~isAvailable
         THEN [AiOp("predictToolsForServer", PredictKey(s))
                 EXCEPT !.pc = "returned"]
         ELSE [Lookup(AiOp("predictToolsForServer", PredictKey(s)))
                 EXCEPT !.api = IF ~Fresh(PredictKey(s)) /\ openai = "client"
                                  THEN 1 ELSE 0])
  /\ UNCHANGED <<aiConfig, openai, aiCache, clock, aiErrorListener>>

\* The compute function of predictToolsForServer settles, lines 111-147: the
\* reply's array, or after a failure the 'error' event and [] (with no
\* listener for 'error' the emit throws out of the function).
apiSettled(o, ok, tools) ==
  /\ o \in DOMAIN aiOps
  /\ aiOps[o].method = "predictToolsForServer" /\ aiOps[o].pc = "compute"
  /\ ok => aiOps[o].api = 1
  /\ \E next \in {[aiOps EXCEPT ![o].emits =
                     Append(@, IF ok THEN "debug" ELSE "error")]} :
       /\ aiOps' = [next EXCEPT
            ![o].pc = IF ~ok /\ ~aiErrorListener THEN "threw" ELSE "returned",
            ![o].value = IF ok THEN tools ELSE <<>>]
       /\ aiCache' = IF (ok \/ aiErrorListener) /\ aiConfig.cache
                       THEN Store(aiOps[o].key, IF ok THEN tools ELSE <<>>)
                       ELSE aiCache
  /\ UNCHANGED <<aiConfig, openai, clock, aiErrorListener>>

notAi == <<engine, environment, parserVars, watcherVars>>

\* A helper constructed with any configuration.
AiInit ==
  /\ constructed
  /\ parserIdle
  /\ watcherConstructed
  /\ ambientEnv = <<>>
  /\ configEnv = [s \in Servers |-> <<>>]
  /\ \E config \in AiConfigs : aiConstructed(config)

\* getOrCompute called on its own, as the tests call it.
MemoNext ==
  \/ tick /\ UNCHANGED notAi
  \/ \E key \in CacheKeys : getOrCompute(key) /\ UNCHANGED notAi
  \/ \E o \in 1..MaxAiOps, throws \in BOOLEAN, value \in Values :
       computeSettled(o, throws, value) /\ UNCHANGED notAi

MemoSpec == AiInit /\ [][MemoNext]_vars

AiNext ==
  \/ tick /\ UNCHANGED notAi
  \/ aiOnError /\ UNCHANGED notAi
  \/ \E loaded \in BOOLEAN : importSettled(loaded) /\ UNCHANGED notAi
  \/ \E s \in Servers : predictToolsForServer(s) /\ UNCHANGED notAi
  \/ \E o \in 1..MaxAiOps, ok \in BOOLEAN, tools \in ApiReplies :
       apiSettled(o, ok, tools) /\ UNCHANGED notAi

AiSpec == AiInit /\ [][AiNext]_vars


\* ---------------------------------------------------------------------------
\* The helper's contracts
\* ---------------------------------------------------------------------------

\* The getOrCompute or predictToolsForServer call made by this step.
Asked(method) ==
  Len(aiOps') = Len(aiOps) + 1 /\ aiOps'[Len(aiOps')].method = method

\* C31: a getOrCompute(key, f) call returns the cached value at once and
\* without calling f exactly when caching is enabled and the cache holds an
\* entry of key whose age is less than maxAge; in every other case it calls f
\* once, and when f has resolved it returns that value and, caching enabled,
\* stores it under key with the time of that moment; with caching disabled the
\* cache is left alone.
C31_CachedExactlyWhenFresh ==
  /\ [][Asked("getOrCompute") =>
          LET op == aiOps'[Len(aiOps')]
              fresh == /\ aiConfig.cache
                       /\ op.key \in DOMAIN aiCache
                       /\ clock - aiCache[op.key].timestamp < maxAge
          IN  IF fresh
                THEN /\ op.pc = "returned" /\ op.calls = 0
                     /\ op.value = aiCache[op.key].value
                ELSE op.pc = "compute" /\ op.calls = 1]_vars
  /\ [][\A o \in DOMAIN aiOps :
          (aiOps[o].method = "getOrCompute" /\ aiOps[o].pc = "compute"
             /\ aiOps'[o].pc = "returned")
          => /\ aiOps'[o].calls = 1
             /\ IF aiConfig.cache
                  THEN aiCache'[aiOps[o].key] =
                         [value |-> aiOps'[o].value, timestamp |-> clock]
                  ELSE aiCache' = aiCache]_vars

\* With maxAge 2 a value stored at time 0 was served from the cache to a
\* second call before the clock reached 2.
C31_ServedFromCache ==
  /\ aiConfig.cache /\ aiConfig.maxAge = 2
  /\ Len(aiOps) = 2
  /\ aiOps[1].key = "k1" /\ aiOps[1].calls = 1 /\ aiOps[1].pc = "returned"
  /\ aiOps[2].key = "k1" /\ aiOps[2].hit /\ aiOps[2].calls = 0
  /\ aiOps[2].value = aiOps[1].value
  /\ aiCache["k1"].timestamp = 0
  /\ clock = 1


\* C32: no predictToolsForServer call throws; a call made while AI is not
\* available returns the empty array without calling the API, and a call
\* whose API call failed returns the empty array.
C32_PredictNeverThrows ==
  /\ [](\A o \in DOMAIN aiOps :
          aiOps[o].method = "predictToolsForServer" => aiOps[o].pc # "threw")
  /\ [][(Asked("predictToolsForServer") /\ ~isAvailable) =>
          LET op == aiOps'[Len(aiOps')]
          IN  op.pc = "returned" /\ op.value = <<>> /\ op.api = 0]_vars
  /\ [](\A o \in DOMAIN aiOps :
          (aiOps[o].pc # "compute" /\ aiOps[o].emits = <<"error">>) =>
            (aiOps[o].pc = "returned" /\ aiOps[o].value = <<>>))


(***************************************************************************)
(* Calls that outlive their moment                                         *)
(***************************************************************************)

\* C33: after clearCache() the cache holds no entry computed from a process
\* spawned before it: while no call has been made since clearCache() returned
\* the cache stays empty, whatever calls were in flight, and an entry of a
\* serverId exists only when a process was spawned for it since.
C33_NoEntryFromBeforeClear ==
  /\ cleared => cachedTools = <<>>
  /\ \A s \in DOMAIN cachedTools : spawnCount[s] >= 1


\* C34: once a call has returned, its session does nothing more: no step adds
\* a diagnostic of the call, writes a request to its subprocess, issues a
\* kill or runs an extraction, whichever timers and events were pending when
\* it returned.
C34_QuietAfterReturn ==
  [][\A c \in Calls :
       phase[c] \in {"fulfilled", "rejected"} =>
         /\ diag'[c] = diag[c]
         /\ written'[c] = written[c]
         /\ kills'[c] = kills[c]
         /\ extractions'[c] = extractions[c]]_vars


\* C35: a call whose serverConfig has no command, and which the cache does
\* not serve, spawns no process, emits the error diagnostic, returns the
\* empty result and leaves the cache as it is.
C35_NoCommandNoEntry ==
  [][\A c \in Calls :
       (phase[c] = "idle" /\ phase'[c] # "idle"
          /\ spawnResult'[c] = "none" /\ "debug.cached" \notin diag'[c]) =>
         /\ childProcess'[c] = "none"
         /\ "error.failed" \in diag'[c]
         /\ phase'[c] = "fulfilled"
         /\ returned'[c] = <<>>
         /\ cachedTools' = cachedTools]_vars


\* ---------------------------------------------------------------------------
\* Overlapping calls of the watcher
\* ---------------------------------------------------------------------------

\* The handles that chokidar.watch() returned and close() has not closed.
OpenWatchers == (1..watchCalls) \ closedWatchers

\* C36: whatever the interleaving of start() and stop() calls, at most one
\* underlying file watcher is open at any time, and whenever no call is in
\* progress running is true exactly when a handle is held.
C36_OneOpenWatcher ==
  /\ Cardinality(OpenWatchers) <= 1
  /\ (\A o \in DOMAIN ops : Top(o).pc = "returned" /\ Len(ops[o]) = 1) =>
       (running <=> watcher # 0)


\* Change notifications for the content the file has, and nothing else: the
\* file is not rewritten while they are handled, its reads can fail.
NotifyNext ==
  \/ watcherOnError /\ UNCHANGED notWatcher
  \/ handleFileChange /\ UNCHANGED notWatcher
  \/ \E o \in DOMAIN ops : handleFileChangeHashed(o) /\ UNCHANGED notWatcher
  \/ \E o \in DOMAIN ops, reads \in BOOLEAN : getFileHashRead(o, reads) /\ UNCHANGED notWatcher
  \/ \E o \in DOMAIN ops : getFileHashBackoff(o) /\ UNCHANGED notWatcher

NotifySpec == Init /\ [][NotifyNext]_vars

\* The handleFileChange calls that emitted fileChanged.
Reported ==
  {o \in DOMAIN ops : /\ ops[o][1].kind = "handleFileChange"
                      /\ \E i \in DOMAIN ops[o][1].emits :
                           ops[o][1].emits[i] = "fileChanged"}

\* C37: when change notifications for one and the same new content are
\* handled by handleFileChange calls, overlapping or not, fileChanged is
\* emitted at most once for that content.
C37_ReportedOnce == Cardinality(Reported) <= 1


\* C38: handleFileChange emits fileChanged only after a successful read whose
\* hash differs from lastHash; when every read attempt failed, the call emits
\* no fileChanged and lastHash keeps its value.
C38_NoReportWithoutRead ==
  [][\A o \in DOMAIN ops :
       (handleFileChangeHashed(o) /\ Top(o).ret \notin Hashes) =>
         /\ lastHash' = lastHash
         /\ ops'[o][1].emits = ops[o][1].emits
              \/ ops'[o][1].emits[Len(ops'[o][1].emits)] # "fileChanged"]_vars


\* The earlier predictToolsForServer calls for a key.
Predicted(key) ==
  {o \in DOMAIN aiOps : /\ aiOps[o].method = "predictToolsForServer"
                        /\ aiOps[o].key = key}

\* A call that returned [] after its API call failed.
Failed(o) ==
  /\ aiOps[o].pc = "returned"
  /\ aiOps[o].api = 1
  /\ aiOps[o].value = <<>>
  /\ \E i \in DOMAIN aiOps[o].emits : aiOps[o].emits[i] = "error"

\* C39: a failed prediction is not memoized: a predictToolsForServer call for
\* a serverId whose earlier calls all returned [] after a failure is not
\* answered from the cache, and calls the API when the client is loaded.
C39_FailureNotMemoized ==
  [][\A s \in Servers :
       (/\ Asked("predictToolsForServer")
        /\ aiOps'[Len(aiOps')].key = PredictKey(s)
        /\ Predicted(PredictKey(s)) # {}
        /\ \A o \in Predicted(PredictKey(s)) : Failed(o)) =>
         /\ ~aiOps'[Len(aiOps')].hit
         /\ openai = "client" => aiOps'[Len(aiOps')].api = 1]_vars


(***************************************************************************)
(* The list of the parser                                                  *)
(***************************************************************************)

\* The names of a list.
Names(tools) == {tools[i] : i \in DOMAIN tools}

\* The place of a name in the order of sort().
Place(name) == CHOOSE k \in DOMAIN NameOrder : NameOrder[k] = name

\* What a returned list owes to its call: non-empty, without duplicates,
\* sorted, holding the autoApprove entries and the names direct discovery
\* returned, the default name only on its own and with nothing contributed.
Contract ==
  LET discoveredTools == IF parserConfig.discovery /\ phase[1] = "fulfilled"
                           THEN returned[1] ELSE <<>>
  IN /\ parserTools # <<>>
     /\ \A i, j \in DOMAIN parserTools :
          i < j => Place(parserTools[i]) < Place(parserTools[j])
     /\ Names(parserConfig.autoApprove) \subseteq Names(parserTools)
     /\ Names(discoveredTools) \subseteq Names(parserTools)
     /\ defaultTool(parserConfig.serverId) \in Names(parserTools) =>
          /\ parserTools = <<defaultTool(parserConfig.serverId)>>
          /\ parserConfig.autoApprove = <<>>
          /\ discoveredTools = <<>>

\* C40: discoverToolsForServer always returns a list, and the list is
\* non-empty, duplicate-free and sorted, contains every autoApprove entry and
\* every name direct discovery returned, and has the default name
\* <server>_tool only when auto-approve, discovery and prediction all
\* contributed nothing.
C40_AlwaysAList ==
  /\ stage # "threw"
  /\ stage = "done" => Contract

=============================================================================
